---------------------------- MODULE Spec2Model ----------------------------
(***************************************************************************)
(* Model of the OAuth consent-caching subsystem of notion-mcp-server-remote *)
(* (src/src/auth-handler.ts and the workers-oauth-utils part of            *)
(* src/src/tools/index.ts).                                                *)
(*                                                                         *)
(* JavaScript strings are sequences of UTF-16 code units, written here as  *)
(* sequences of natural numbers (97 is "a", 46 is ".").  Byte arrays are   *)
(* sequences of numbers in 0..255.                                         *)
(***************************************************************************)
EXTENDS Integers, Sequences, FiniteSets, TLC

VARIABLES
    secret,      \* env.COOKIE_ENCRYPTION_KEY of the deployment
    registered,  \* client ids OAUTH_PROVIDER.lookupClient knows
    jar,         \* the browser's mcp-approved-clients cookie value (<<>>: none)
    rendered,    \* history: AuthRequests a consent dialog was rendered for
    granted,     \* history: client ids approved by an accepted browser POST
    posts,       \* number of forms the browser has posted so far
    req,         \* the last request handled
    resp,        \* the response to it
    call,        \* codec harness: the last function application
    ret,         \* codec harness: its result
    callbacks,   \* the /callback requests (and direct token exchanges) in progress
    upstream,    \* the requests the upstream token endpoint has received
    completions  \* the calls of OAUTH_PROVIDER.completeAuthorization

vars == <<secret, registered, jar, rendered, granted, posts, req, resp, call, ret,
          callbacks, upstream, completions>>

callbackVars == <<callbacks, upstream, completions>>

authorizeVars == <<secret, registered, jar, rendered, granted, posts, req, resp>>

-----------------------------------------------------------------------------
(* Strings *)

Drop(s, n) == SubSeq(s, n + 1, Len(s))

StartsWith(s, p) == Len(s) >= Len(p) /\ SubSeq(s, 1, Len(p)) = p

\* ECMAScript LineTerminator and WhiteSpace code units
IsLineTerminator(c) == c \in {10, 13, 8232, 8233}

IsWhiteSpace(c) == c \in {9, 10, 11, 12, 13, 32, 160, 8232, 8233, 65279}

\* s without the white space at its start
TrimStart(s) ==
    IF \A i \in 1..Len(s) : IsWhiteSpace(s[i]) THEN <<>>
    ELSE Drop(s, (CHOOSE i \in 1..Len(s) :
                      /\ ~IsWhiteSpace(s[i])
                      /\ \A j \in 1..(i - 1) : IsWhiteSpace(s[j])) - 1)

\* s without the white space at its end
TrimEnd(s) ==
    IF \A i \in 1..Len(s) : IsWhiteSpace(s[i]) THEN <<>>
    ELSE SubSeq(s, 1, CHOOSE i \in 1..Len(s) :
                          /\ ~IsWhiteSpace(s[i])
                          /\ \A j \in (i + 1)..Len(s) : IsWhiteSpace(s[j]))

\* String.prototype.trim
Trim(s) == TrimEnd(TrimStart(s))

\* the position of the k-th separator of s; 0 before the first one and
\* Len(s) + 1 after the last one
SeparatorAt(s, sep, k) ==
    LET at == {i \in 1..Len(s) : s[i] = sep} IN
    IF k = 0 THEN 0
    ELSE IF k > Cardinality(at) THEN Len(s) + 1
    ELSE CHOOSE p \in at : Cardinality({q \in at : q < p}) = k - 1

\* String.prototype.split with a one-character separator: the pieces between
\* the separators, one more than there are separators
Split(s, sep) ==
    [k \in 1..(Cardinality({i \in 1..Len(s) : s[i] = sep}) + 1) |->
        SubSeq(s, SeparatorAt(s, sep, k - 1) + 1, SeparatorAt(s, sep, k) - 1)]

\* x bound to a name in F: the value is computed once and used many times
With(x, F(_)) == F(x)

\* the strings of ss joined, by halves
RECURSIVE Concat(_)
Concat(ss) ==
    IF Len(ss) = 0 THEN <<>>
    ELSE IF Len(ss) = 1 THEN ss[1]
    ELSE Concat(SubSeq(ss, 1, Len(ss) \div 2))
         \o Concat(SubSeq(ss, Len(ss) \div 2 + 1, Len(ss)))

-----------------------------------------------------------------------------
(* Platform primitives the code calls: TextEncoder, btoa/atob, parseInt,   *)
(* crypto.subtle                                                           *)

\* the UTF-8 bytes of one code unit below the surrogate range
Utf8(c) ==
    IF c < 128 THEN <<c>>
    ELSE IF c < 2048 THEN <<192 + (c \div 64), 128 + (c % 64)>>
    ELSE <<224 + (c \div 4096), 128 + ((c \div 64) % 64), 128 + (c % 64)>>

\* new TextEncoder().encode(s)
TextEncode(s) == Concat([i \in 1..Len(s) |-> Utf8(s[i])])

B64Char(i) ==
    IF i < 26 THEN 65 + i
    ELSE IF i < 52 THEN 71 + i
    ELSE IF i < 62 THEN i - 4
    ELSE IF i = 62 THEN 43 ELSE 47

B64Index(c) ==
    IF c >= 65 /\ c <= 90 THEN c - 65
    ELSE IF c >= 97 /\ c <= 122 THEN c - 71
    ELSE IF c >= 48 /\ c <= 57 THEN c + 4
    ELSE IF c = 43 THEN 62
    ELSE IF c = 47 THEN 63
    ELSE -1

\* the four characters for a group of one, two or three bytes
EncodeGroup(b) ==
    IF Len(b) = 1 THEN
        <<B64Char(b[1] \div 4), B64Char((b[1] % 4) * 16), 61, 61>>
    ELSE IF Len(b) = 2 THEN
        <<B64Char(b[1] \div 4), B64Char((b[1] % 4) * 16 + (b[2] \div 16)),
          B64Char((b[2] % 16) * 4), 61>>
    ELSE
        <<B64Char(b[1] \div 4), B64Char((b[1] % 4) * 16 + (b[2] \div 16)),
          B64Char((b[2] % 16) * 4 + (b[3] \div 64)), B64Char(b[3] % 64)>>

Base64Encode(b) ==
    Concat([g \in 1..((Len(b) + 2) \div 3) |->
               EncodeGroup(SubSeq(b, 3 * g - 2,
                                  IF 3 * g < Len(b) THEN 3 * g ELSE Len(b)))])

\* btoa(s): throws InvalidCharacterError when a code unit is above 0xFF
btoa(s) ==
    IF \E i \in 1..Len(s) : s[i] > 255
    THEN [threw |-> TRUE, v |-> <<>>]
    ELSE [threw |-> FALSE, v |-> Base64Encode(s)]

StripAsciiWhitespace(s) ==
    SelectSeq(s, LAMBDA c : c \notin {9, 10, 12, 13, 32})

StripPadding(s) ==
    IF Len(s) % 4 # 0 \/ s = <<>> THEN s
    ELSE IF s[Len(s)] # 61 THEN s
    ELSE IF s[Len(s) - 1] = 61 THEN SubSeq(s, 1, Len(s) - 2)
    ELSE SubSeq(s, 1, Len(s) - 1)

\* the bytes of a group of up to four characters; left-over bits are discarded
DecodeGroup(d) ==
    IF Len(d) < 2 THEN <<>>
    ELSE IF Len(d) = 2
    THEN <<B64Index(d[1]) * 4 + (B64Index(d[2]) \div 16)>>
    ELSE IF Len(d) = 3
    THEN <<B64Index(d[1]) * 4 + (B64Index(d[2]) \div 16),
           (B64Index(d[2]) % 16) * 16 + (B64Index(d[3]) \div 4)>>
    ELSE <<B64Index(d[1]) * 4 + (B64Index(d[2]) \div 16),
           (B64Index(d[2]) % 16) * 16 + (B64Index(d[3]) \div 4),
           (B64Index(d[3]) % 4) * 64 + B64Index(d[4])>>

\* the bit groups of a forgiving-base64 body
Base64Decode(d) ==
    Concat([g \in 1..((Len(d) + 3) \div 4) |->
               DecodeGroup(SubSeq(d, 4 * g - 3,
                                  IF 4 * g < Len(d) THEN 4 * g ELSE Len(d)))])

\* atob(s): the forgiving-base64 decode; throws InvalidCharacterError on a
\* character outside the alphabet or a length of 1 modulo 4
atob(s) ==
    LET d == StripPadding(StripAsciiWhitespace(s)) IN
    IF Len(d) % 4 = 1 \/ \E i \in 1..Len(d) : B64Index(d[i]) = -1
    THEN [threw |-> TRUE, v |-> <<>>]
    ELSE [threw |-> FALSE, v |-> Base64Decode(d)]

HexDigit(n) == IF n < 10 THEN 48 + n ELSE 87 + n

HexVal(c) ==
    IF c >= 48 /\ c <= 57 THEN c - 48
    ELSE IF c >= 97 /\ c <= 102 THEN c - 87
    ELSE IF c >= 65 /\ c <= 70 THEN c - 55
    ELSE -1

\* the value of the longest prefix of hex digits of s, or -1 when s has none
RECURSIVE HexPrefix(_, _)
HexPrefix(s, acc) ==
    IF s = <<>> \/ HexVal(s[1]) = -1 THEN acc
    ELSE HexPrefix(Tail(s), (IF acc = -1 THEN 0 ELSE acc * 16) + HexVal(s[1]))

\* parseInt(s, 16): leading white space, a sign and a 0x prefix are skipped,
\* digits are read up to the first character that is none; NaN without digits
parseInt16(s) ==
    LET t == TrimStart(s)
        neg == t # <<>> /\ t[1] = 45
        u == IF t # <<>> /\ t[1] \in {43, 45} THEN Tail(t) ELSE t
        w == IF Len(u) >= 2 /\ u[1] = 48 /\ u[2] \in {120, 88} THEN Drop(u, 2) ELSE u
        n == HexPrefix(w, -1)
    IN IF n = -1 THEN [nan |-> TRUE, n |-> 0]
       ELSE [nan |-> FALSE, n |-> IF neg THEN 0 - n ELSE n]

\* the conversion new Uint8Array([...]) applies to each number
ToUint8(x) == IF x.nan THEN 0 ELSE ((x.n % 256) + 256) % 256

\* the key HMAC computes with: a raw key shorter than the hash's block is
\* padded with zero bytes to the block's length, so the zero bytes at the end
\* of a key do not count
HmacKey(key) ==
    SubSeq(key, 1, CHOOSE n \in 0..Len(key) :
                       /\ \A i \in (n + 1)..Len(key) : key[i] = 0
                       /\ (n > 0 => key[n] # 0))

\* crypto.subtle.sign("HMAC", key, data) with SHA-256, as an ideal MAC: an
\* injective function of the padded key and the message bytes (the tag's
\* length follows the input's; a real tag has 32 bytes)
HmacSha256(key, data) ==
    LET m == <<Len(HmacKey(key))>> \o HmacKey(key) \o data
    IN [i \in 1..Len(m) |-> (m[i] * 167 + 89 * i + 41) % 256]

-----------------------------------------------------------------------------
(* JavaScript values, JSON.parse and JSON.stringify                        *)
(*                                                                         *)
(* A value is a record [t, s, n, a]: t the type, s the code units of a     *)
(* string, n the value of a number, a the elements of an array or the      *)
(* members of an object as key, value, key, value, ...  Numbers are the    *)
(* integer literals; the inputs drawn below hold no fraction or exponent.  *)

JUndefined == [t |-> "undefined", s |-> <<>>, n |-> 0, a |-> <<>>]
JNull == [t |-> "null", s |-> <<>>, n |-> 0, a |-> <<>>]
JBool(b) == [t |-> "boolean", s |-> <<>>, n |-> IF b THEN 1 ELSE 0, a |-> <<>>]
JNum(k) == [t |-> "number", s |-> <<>>, n |-> k, a |-> <<>>]
JStr(x) == [t |-> "string", s |-> x, n |-> 0, a |-> <<>>]
JArr(xs) == [t |-> "array", s |-> <<>>, n |-> 0, a |-> xs]
JObj(ms) == [t |-> "object", s |-> <<>>, n |-> 0, a |-> ms]

\* !v
Falsy(v) ==
    \/ v.t \in {"undefined", "null"}
    \/ v.t = "boolean" /\ v.n = 0
    \/ v.t = "number" /\ v.n = 0
    \/ v.t = "string" /\ v.s = <<>>

\* v[key] for the keys the handlers read (own properties of parsed JSON);
\* reading a property of undefined or null throws a TypeError
GetProp(v, key) ==
    IF v.t \in {"undefined", "null"} THEN [threw |-> TRUE, v |-> JUndefined]
    ELSE IF v.t = "object"
              /\ \E i \in 1..(Len(v.a) \div 2) : v.a[2 * i - 1] = JStr(key)
    THEN LET i == CHOOSE i \in 1..(Len(v.a) \div 2) : v.a[2 * i - 1] = JStr(key)
         IN [threw |-> FALSE, v |-> v.a[2 * i]]
    ELSE [threw |-> FALSE, v |-> JUndefined]

\* an object member set by JSON.parse: a repeated key keeps its place and
\* takes the later value
SetMember(ms, k, v) ==
    IF \E i \in 1..(Len(ms) \div 2) : ms[2 * i - 1] = k
    THEN LET i == CHOOSE i \in 1..(Len(ms) \div 2) : ms[2 * i - 1] = k
         IN [ms EXCEPT ![2 * i] = v]
    ELSE ms \o <<k, v>>

ParseFail == [ok |-> FALSE, v |-> JNull, i |-> 0]

\* the first position from i on that holds no JSON white space
SkipWs(s, i) ==
    IF \A j \in i..Len(s) : s[j] \in {9, 10, 13, 32} THEN
        (IF i > Len(s) THEN i ELSE Len(s) + 1)
    ELSE CHOOSE j \in i..Len(s) :
             /\ s[j] \notin {9, 10, 13, 32}
             /\ \A k \in i..(j - 1) : s[k] \in {9, 10, 13, 32}

Hex4(s, i) ==
    IF i + 3 > Len(s) \/ \E k \in 0..3 : HexVal(s[i + k]) = -1 THEN -1
    ELSE HexVal(s[i]) * 4096 + HexVal(s[i + 1]) * 256
         + HexVal(s[i + 2]) * 16 + HexVal(s[i + 3])

EscapeChar(c) ==
    IF c \in {34, 92, 47} THEN c
    ELSE IF c = 98 THEN 8
    ELSE IF c = 102 THEN 12
    ELSE IF c = 110 THEN 10
    ELSE IF c = 114 THEN 13
    ELSE IF c = 116 THEN 9
    ELSE -1

\* a quote, a backslash or a control character: the end of a run of plain
\* characters in a string
EndsPlain(c) == c \in {34, 92} \/ c < 32

\* the first position from i on that ends a run of plain characters,
\* Len(s) + 1 if there is none
PlainEnd(s, i) ==
    IF \A j \in i..Len(s) : ~EndsPlain(s[j]) THEN Len(s) + 1
    ELSE CHOOSE j \in i..Len(s) :
             EndsPlain(s[j]) /\ \A k \in i..(j - 1) : ~EndsPlain(s[k])

\* a string's characters from position i (after the opening quote): runs of
\* plain characters and escapes up to the closing quote
RECURSIVE ParseString(_, _, _)
ParseString(s, i, acc) ==
    With(PlainEnd(s, i), LAMBDA j :
        IF j > Len(s) THEN ParseFail
        ELSE IF s[j] = 34
        THEN [ok |-> TRUE, v |-> JStr(acc \o SubSeq(s, i, j - 1)), i |-> j + 1]
        ELSE IF s[j] < 32 THEN ParseFail
        ELSE IF j + 1 > Len(s) THEN ParseFail
        ELSE IF s[j + 1] = 117 THEN
            IF Hex4(s, j + 2) = -1 THEN ParseFail
            ELSE ParseString(s, j + 6,
                             acc \o SubSeq(s, i, j - 1) \o <<Hex4(s, j + 2)>>)
        ELSE IF EscapeChar(s[j + 1]) = -1 THEN ParseFail
        ELSE ParseString(s, j + 2,
                         acc \o SubSeq(s, i, j - 1) \o <<EscapeChar(s[j + 1])>>))

RECURSIVE ParseDigits(_, _, _)
ParseDigits(s, i, acc) ==
    IF i <= Len(s) /\ s[i] >= 48 /\ s[i] <= 57
    THEN ParseDigits(s, i + 1, acc * 10 + (s[i] - 48))
    ELSE [n |-> acc, i |-> i]

\* an integer literal: -?(0|[1-9][0-9]*)
ParseNumber(s, i) ==
    LET neg == s[i] = 45
        j == IF neg THEN i + 1 ELSE i
    IN IF j > Len(s) \/ s[j] < 48 \/ s[j] > 57 THEN ParseFail
       ELSE LET d == IF s[j] = 48 THEN [n |-> 0, i |-> j + 1]
                     ELSE ParseDigits(s, j, 0)
            IN IF d.i <= Len(s) /\ s[d.i] \in {46, 101, 69} \cup 48..57
               THEN ParseFail
               ELSE [ok |-> TRUE, v |-> JNum(IF neg THEN 0 - d.n ELSE d.n),
                     i |-> d.i]

Literal(s, i, word, v) ==
    IF i + Len(word) - 1 <= Len(s) /\ SubSeq(s, i, i + Len(word) - 1) = word
    THEN [ok |-> TRUE, v |-> v, i |-> i + Len(word)]
    ELSE ParseFail

RECURSIVE ParseValue(_, _), ParseElements(_, _, _), ParseMembers(_, _, _)

\* the JSON value that starts at position i, white space skipped
ParseValue(s, i0) ==
    LET i == SkipWs(s, i0) IN
    IF i > Len(s) THEN ParseFail
    ELSE IF s[i] = 34 THEN ParseString(s, i + 1, <<>>)
    ELSE IF s[i] = 91 THEN
        LET j == SkipWs(s, i + 1) IN
        IF j <= Len(s) /\ s[j] = 93
        THEN [ok |-> TRUE, v |-> JArr(<<>>), i |-> j + 1]
        ELSE ParseElements(s, j, <<>>)
    ELSE IF s[i] = 123 THEN
        LET j == SkipWs(s, i + 1) IN
        IF j <= Len(s) /\ s[j] = 125
        THEN [ok |-> TRUE, v |-> JObj(<<>>), i |-> j + 1]
        ELSE ParseMembers(s, j, <<>>)
    ELSE IF s[i] = 116 THEN Literal(s, i, <<116, 114, 117, 101>>, JBool(TRUE))
    ELSE IF s[i] = 102 THEN Literal(s, i, <<102, 97, 108, 115, 101>>, JBool(FALSE))
    ELSE IF s[i] = 110 THEN Literal(s, i, <<110, 117, 108, 108>>, JNull)
    ELSE IF s[i] = 45 \/ (s[i] >= 48 /\ s[i] <= 57) THEN ParseNumber(s, i)
    ELSE ParseFail

\* the elements of an array from position i, up to its closing bracket
ParseElements(s, i, acc) ==
    LET e == ParseValue(s, i) IN
    IF ~e.ok THEN ParseFail
    ELSE LET j == SkipWs(s, e.i) IN
         IF j > Len(s) THEN ParseFail
         ELSE IF s[j] = 93
         THEN [ok |-> TRUE, v |-> JArr(Append(acc, e.v)), i |-> j + 1]
         ELSE IF s[j] = 44 THEN ParseElements(s, j + 1, Append(acc, e.v))
         ELSE ParseFail

\* the members of an object from position i, up to its closing brace
ParseMembers(s, i0, acc) ==
    LET i == SkipWs(s, i0) IN
    IF i > Len(s) \/ s[i] # 34 THEN ParseFail
    ELSE LET k == ParseString(s, i + 1, <<>>) IN
         IF ~k.ok THEN ParseFail
         ELSE LET c == SkipWs(s, k.i) IN
              IF c > Len(s) \/ s[c] # 58 THEN ParseFail
              ELSE LET e == ParseValue(s, c + 1) IN
                   IF ~e.ok THEN ParseFail
                   ELSE LET j == SkipWs(s, e.i)
                            ms == SetMember(acc, k.v, e.v)
                        IN IF j > Len(s) THEN ParseFail
                           ELSE IF s[j] = 125
                           THEN [ok |-> TRUE, v |-> JObj(ms), i |-> j + 1]
                           ELSE IF s[j] = 44 THEN ParseMembers(s, j + 1, ms)
                           ELSE ParseFail

\* JSON.parse(s): throws a SyntaxError unless s is exactly one JSON text
JSONparse(s) ==
    With(ParseValue(s, 1), LAMBDA r :
        IF r.ok /\ SkipWs(s, r.i) = Len(s) + 1
        THEN [threw |-> FALSE, v |-> r.v]
        ELSE [threw |-> TRUE, v |-> JUndefined])

RECURSIVE Decimal(_)
Decimal(n) ==
    IF n < 0 THEN <<45>> \o Decimal(0 - n)
    ELSE IF n < 10 THEN <<48 + n>>
    ELSE Decimal(n \div 10) \o <<48 + (n % 10)>>

\* the characters JSON.stringify writes for one code unit of a string
QuoteChar(c) ==
    IF c = 34 THEN <<92, 34>>
    ELSE IF c = 92 THEN <<92, 92>>
    ELSE IF c = 8 THEN <<92, 98>>
    ELSE IF c = 9 THEN <<92, 116>>
    ELSE IF c = 10 THEN <<92, 110>>
    ELSE IF c = 12 THEN <<92, 102>>
    ELSE IF c = 13 THEN <<92, 114>>
    ELSE IF c < 32 THEN <<92, 117, 48, 48, HexDigit(c \div 16), HexDigit(c % 16)>>
    ELSE <<c>>

Quote(s) == <<34>> \o Concat([i \in 1..Len(s) |-> QuoteChar(s[i])]) \o <<34>>

RECURSIVE JSONstringify(_), StringifyElements(_), StringifyMembers(_, _)

\* JSON.stringify(v) for a value other than undefined
JSONstringify(v) ==
    IF v.t = "string" THEN Quote(v.s)
    ELSE IF v.t = "number" THEN Decimal(v.n)
    ELSE IF v.t = "boolean" THEN
        (IF v.n = 1 THEN <<116, 114, 117, 101>> ELSE <<102, 97, 108, 115, 101>>)
    ELSE IF v.t = "array" THEN <<91>> \o StringifyElements(v.a) \o <<93>>
    ELSE IF v.t = "object" THEN <<123>> \o StringifyMembers(v.a, TRUE) \o <<125>>
    ELSE <<110, 117, 108, 108>>

\* array elements, comma separated; undefined is written as null
StringifyElements(xs) ==
    IF xs = <<>> THEN <<>>
    ELSE JSONstringify(xs[1])
         \o (IF Len(xs) > 1 THEN <<44>> ELSE <<>>)
         \o StringifyElements(Tail(xs))

\* object members, comma separated; a member that is undefined is left out
StringifyMembers(ms, first) ==
    IF ms = <<>> THEN <<>>
    ELSE IF ms[2].t = "undefined" THEN StringifyMembers(Drop(ms, 2), first)
    ELSE (IF first THEN <<>> ELSE <<44>>)
         \o Quote(ms[1].s) \o <<58>> \o JSONstringify(ms[2])
         \o StringifyMembers(Drop(ms, 2), FALSE)

-----------------------------------------------------------------------------
(* The signed-cookie codec and the consent gate (workers-oauth-utils)      *)

\* "mcp-approved-clients"
COOKIE_NAME ==
    <<109, 99, 112, 45, 97, 112, 112, 114, 111, 118, 101, 100, 45, 99, 108,
      105, 101, 110, 116, 115>>

\* the attributes parseRedirectApproval gives the cookie
COOKIE_ATTRIBUTES == "HttpOnly; Secure; SameSite=Lax; Max-Age=31536000; Path=/"

\* "oauthReqInfo", "clientId", "scope", "true"
K_oauthReqInfo == <<111, 97, 117, 116, 104, 82, 101, 113, 73, 110, 102, 111>>
K_clientId == <<99, 108, 105, 101, 110, 116, 73, 100>>
K_scope == <<115, 99, 111, 112, 101>>
S_true == <<116, 114, 117, 101>>

Threw == [threw |-> TRUE, v |-> JUndefined]
Returned(x) == [threw |-> FALSE, v |-> x]

\* importKey(secret): throws on an empty secret, else the HMAC key over the
\* secret's UTF-8 bytes
importKey(s) ==
    IF s = <<>> THEN [threw |-> TRUE, v |-> <<>>]
    ELSE [threw |-> FALSE, v |-> TextEncode(s)]

\* b.toString(16).padStart(2, "0") of every byte, joined
ToHex(bytes) ==
    Concat([i \in 1..Len(bytes) |->
              <<HexDigit(bytes[i] \div 16), HexDigit(bytes[i] % 16)>>])

\* signData(key, data): the lower-case hex of the HMAC of data's UTF-8 bytes
signData(key, data) == ToHex(HmacSha256(key, TextEncode(data)))

\* whether position i of s holds a character "." matches: no line terminator
Dot(s, i) == i >= 1 /\ i <= Len(s) /\ ~IsLineTerminator(s[i])

\* the start of the run of such characters that position i is in
RunStart(s, i) ==
    CHOOSE j \in 1..i : (\A k \in j..i : Dot(s, k)) /\ ~Dot(s, j - 1)

\* signatureHex.match(/.{1,2}/g): the runs without line terminator cut in
\* pairs from their start, the last of an odd run alone; <<>> stands for the
\* null that match returns without a match
MatchPairs(s) ==
    With(SelectSeq([i \in 1..Len(s) |-> i],
                   LAMBDA i : Dot(s, i) /\ (i - RunStart(s, i)) % 2 = 0),
         LAMBDA at :
            [k \in 1..Len(at) |->
                SubSeq(s, at[k], IF Dot(s, at[k] + 1) THEN at[k] + 1 ELSE at[k])])

\* verifySignature accepting every signature it can read
verifySignature_AnySignature(key, signatureHex, data) ==
    MatchPairs(signatureHex) # <<>>

\* verifySignature(key, signatureHex, data): the TypeError of mapping over
\* null is caught and answered false
verifySignature(key, signatureHex, data) ==
    LET pairs == MatchPairs(signatureHex)
        signatureBytes == [i \in 1..Len(pairs) |-> ToUint8(parseInt16(pairs[i]))]
    IN IF pairs = <<>> THEN FALSE
       ELSE HmacSha256(key, TextEncode(data)) = signatureBytes

\* cookies.find((c) => c.startsWith(`${COOKIE_NAME}=`)) over the trimmed
\* ";"-separated parts; <<>> when there is none (a match is never empty)
RECURSIVE FindTargetCookie(_)
FindTargetCookie(cookies) ==
    IF cookies = <<>> THEN <<>>
    ELSE IF StartsWith(Trim(cookies[1]), COOKIE_NAME \o <<61>>)
    THEN Trim(cookies[1])
    ELSE FindTargetCookie(Tail(cookies))

\* the parse of the payload accepting every array
ParseApprovedClients_AnyArray(payload) ==
    With(JSONparse(payload), LAMBDA approvedClients :
        IF approvedClients.threw THEN JNull
        ELSE IF approvedClients.v.t # "array" THEN JNull
        ELSE approvedClients.v)

\* payload checks after verification: an array whose items are all strings
ParseApprovedClients(payload) ==
    With(JSONparse(payload), LAMBDA approvedClients :
        IF approvedClients.threw THEN JNull
        ELSE IF approvedClients.v.t # "array" THEN JNull
        ELSE IF \E i \in 1..Len(approvedClients.v.a) :
                    approvedClients.v.a[i].t # "string" THEN JNull
        ELSE approvedClients.v)

\* getApprovedClientsFromCookie(cookieHeader, secret): the array of approved
\* client ids, or null; atob and importKey are outside any try block.
\* An absent Cookie header is the empty string.
getApprovedClientsFromCookie(cookieHeader, s) ==
    IF cookieHeader = <<>> THEN Returned(JNull)
    ELSE With(FindTargetCookie(Split(cookieHeader, 59)), LAMBDA targetCookie :
         IF targetCookie = <<>> THEN Returned(JNull)
         ELSE With(Split(Drop(targetCookie, Len(COOKIE_NAME) + 1), 46), LAMBDA parts :
              IF Len(parts) # 2 THEN Returned(JNull)
              ELSE With(atob(parts[2]), LAMBDA payload :
                   IF payload.threw THEN Threw
                   ELSE IF importKey(s).threw THEN Threw
                   ELSE IF ~verifySignature(importKey(s).v, parts[1], payload.v)
                   THEN Returned(JNull)
                   ELSE Returned(ParseApprovedClients(payload.v)))))

\* approvedClients?.includes(clientId) ?? false
Includes(approvedClients, clientId) ==
    /\ approvedClients.t = "array"
    /\ \E i \in 1..Len(approvedClients.a) : approvedClients.a[i] = JStr(clientId)

\* clientIdAlreadyApproved without its check of an empty clientId
clientIdAlreadyApproved_NoEmptyCheck(cookieHeader, clientId, s) ==
    With(getApprovedClientsFromCookie(cookieHeader, s), LAMBDA approvedClients :
        IF approvedClients.threw THEN [threw |-> TRUE, v |-> FALSE]
        ELSE [threw |-> FALSE, v |-> Includes(approvedClients.v, clientId)])

\* clientIdAlreadyApproved(request, clientId, cookieSecret)
clientIdAlreadyApproved(cookieHeader, clientId, s) ==
    IF clientId = <<>> THEN [threw |-> FALSE, v |-> FALSE]
    ELSE With(getApprovedClientsFromCookie(cookieHeader, s), LAMBDA approvedClients :
         IF approvedClients.threw THEN [threw |-> TRUE, v |-> FALSE]
         ELSE [threw |-> FALSE, v |-> Includes(approvedClients.v, clientId)])

\* the cookie value for a payload: `${signature}.${btoa(payload)}`; importKey
\* and btoa may throw
SignPayload(payload, s) ==
    LET key == importKey(s)
        b64 == btoa(payload)
    IN IF key.threw \/ b64.threw THEN [threw |-> TRUE, v |-> <<>>]
       ELSE [threw |-> FALSE, v |-> signData(key.v, payload) \o <<46>> \o b64.v]

\* the encoder of parseRedirectApproval: the signed cookie value of a list
SignedCookieValue(approvedClients, s) ==
    SignPayload(JSONstringify(JArr(approvedClients)), s)

\* AddClient without the includes test
AddClient_AlwaysAppends(existing, x) == Append(existing, x)

\* existingApprovedClients.includes(x) ? existing : [...existing, x]
AddClient(existing, x) ==
    IF \E i \in 1..Len(existing) : existing[i] = x /\ x.t = "string"
    THEN existing
    ELSE Append(existing, x)

\* a form field is [present, s]: formData.get gives null for an absent field
NoField == [present |-> FALSE, s |-> <<>>]
Field(x) == [present |-> TRUE, s |-> x]

ParsedApprovalThrew == [threw |-> TRUE, state |-> JUndefined, setCookie |-> <<>>]

\* parseRedirectApproval from JSON.parse(stateData) on: the parsed state and
\* the value of the cookie the Set-Cookie header carries, or an exception
ParseApprovedState(stateData, cookieHeader, s) ==
    With(JSONparse(stateData.s), LAMBDA state :
        IF state.threw THEN ParsedApprovalThrew
        ELSE With(getApprovedClientsFromCookie(cookieHeader, s), LAMBDA decoded :
             LET existing == IF decoded.v.t = "array" THEN decoded.v.a ELSE <<>>
                 info == GetProp(state.v, K_oauthReqInfo)
                 clientId == GetProp(info.v, K_clientId)
             IN IF decoded.threw \/ info.threw \/ clientId.threw
                THEN ParsedApprovalThrew
                ELSE With(SignedCookieValue(AddClient(existing, clientId.v), s),
                          LAMBDA cookieValue :
                     IF cookieValue.threw THEN ParsedApprovalThrew
                     ELSE [threw |-> FALSE, state |-> state.v,
                           setCookie |-> cookieValue.v])))

\* parseRedirectApproval testing only that the state field is there
parseRedirectApproval_NoApprovedCheck(approved, stateData, cookieHeader, s) ==
    IF ~stateData.present \/ stateData.s = <<>>
    THEN ParsedApprovalThrew
    ELSE ParseApprovedState(stateData, cookieHeader, s)

\* parseRedirectApproval(request, cookieSecret): throws unless approved is
\* "true" and the state field is there and not empty
parseRedirectApproval(approved, stateData, cookieHeader, s) ==
    IF approved # Field(S_true) \/ ~stateData.present \/ stateData.s = <<>>
    THEN ParsedApprovalThrew
    ELSE ParseApprovedState(stateData, cookieHeader, s)

-----------------------------------------------------------------------------
(* The upstream redirect (upstream-utils, auth-handler)                    *)

\* URLSearchParams.append in the place of set: the parameter is added after
\* the others
SearchParamsSet_Appends(q, name, value) ==
    Append(q, [name |-> name, value |-> value, keep |-> TRUE])

\* URLSearchParams.set(name, value): the first parameter of that name takes
\* the value and the others of that name go; appended when there is none
SearchParamsSet(q, name, value) ==
    IF \E i \in 1..Len(q) : q[i].name = name
    THEN LET first == CHOOSE i \in 1..Len(q) :
                          q[i].name = name /\ \A j \in 1..(i - 1) : q[j].name # name
         IN SelectSeq([i \in 1..Len(q) |->
                          IF i = first THEN [name |-> name, value |-> value, keep |-> TRUE]
                          ELSE [name |-> q[i].name, value |-> q[i].value,
                                keep |-> q[i].name # name]],
                      LAMBDA e : e.keep)
    ELSE Append(q, [name |-> name, value |-> value, keep |-> TRUE])

\* getUpstreamAuthorizeUrl({upstream_url, client_id, redirect_uri, state, owner}):
\* the URL as its base and its query parameters in order; state and owner
\* are optional ([present, s]), owner defaults to "user"
getUpstreamAuthorizeUrl(upstream_url, client_id, redirect_uri, state, owner) ==
    LET q1 == SearchParamsSet(upstream_url.query, "client_id", client_id)
        q2 == SearchParamsSet(q1, "redirect_uri", redirect_uri)
        q3 == SearchParamsSet(q2, "response_type", <<99, 111, 100, 101>>)
        q4 == SearchParamsSet(q3, "owner", IF owner.present THEN owner.s
                                            ELSE <<117, 115, 101, 114>>)
        q5 == IF state.present /\ state.s # <<>>
              THEN SearchParamsSet(q4, "state", state.s) ELSE q4
    IN [base |-> upstream_url.base, query |-> q5]

NoUrl == [base |-> "", query |-> <<>>]

\* env.NOTION_OAUTH_CLIENT_ID ("notion-client") and the href of
\* new URL("/callback", request.url) ("https://mcp.example/callback")
NOTION_OAUTH_CLIENT_ID ==
    <<110, 111, 116, 105, 111, 110, 45, 99, 108, 105, 101, 110, 116>>

CallbackHref ==
    <<104, 116, 116, 112, 115, 58, 47, 47, 109, 99, 112, 46, 101, 120, 97,
      109, 112, 108, 101, 47, 99, 97, 108, 108, 98, 97, 99, 107>>

\* a response: status, text body, the cookie value of its Set-Cookie header
\* (<<>>: no such header), the Location URL, and for the consent page the
\* client's name and the source text of the hidden state field's value
Response(status, body) ==
    [status |-> status, body |-> body, setCookie |-> <<>>, location |-> NoUrl,
     clientName |-> <<>>, stateField |-> <<>>]

\* the answer of the router to a handler that throws
InternalServerError == Response(500, "Internal Server Error")

\* redirectToNotion(request, oauthReqInfo, env, headers): btoa may throw
redirectToNotion(oauthReqInfo, setCookie) ==
    With(btoa(JSONstringify(oauthReqInfo)), LAMBDA state :
        IF state.threw THEN InternalServerError
        ELSE [Response(302, "") EXCEPT
                !.setCookie = setCookie,
                !.location = getUpstreamAuthorizeUrl(
                    [base |-> "https://api.notion.com/v1/oauth/authorize",
                     query |-> <<>>],
                    NOTION_OAUTH_CLIENT_ID, CallbackHref, Field(state.v),
                    Field(<<117, 115, 101, 114>>))])

\* OAUTH_PROVIDER.parseAuthRequest: the AuthRequest of an /authorize query
AuthRequest(clientId) ==
    JObj(<<JStr(K_clientId), JStr(clientId), JStr(K_scope), JArr(<<>>)>>)

\* the state the consent dialog carries: { oauthReqInfo }
DialogState(oauthReqInfo) == JObj(<<JStr(K_oauthReqInfo), oauthReqInfo>>)

\* renderApprovalDialog(request, {client, server, state}): the page, by the
\* two values it interpolates from the request
renderApprovalDialog(clientName, state) ==
    [Response(200, "consent dialog") EXCEPT
        !.clientName = clientName,
        !.stateField = JSONstringify(state)]

\* OAUTH_PROVIDER.lookupClient(clientId).name for a registered client
ClientName(clientId) == <<67, 45>> \o clientId

\* app.get("/authorize") passing the request's cookie on to redirectToNotion
\* as a Set-Cookie header
GetAuthorize_ReissuesCookie(clientId, cookieHeader, s, reg) ==
    IF clientId = <<>> THEN Response(400, "Invalid request")
    ELSE With(clientIdAlreadyApproved(cookieHeader, clientId, s), LAMBDA approved :
         IF approved.threw THEN InternalServerError
         ELSE IF approved.v THEN redirectToNotion(AuthRequest(clientId), cookieHeader)
         ELSE IF clientId \notin reg THEN Response(400, "Client not found")
         ELSE renderApprovalDialog(ClientName(clientId),
                                   DialogState(AuthRequest(clientId))))

\* app.get("/authorize")
GetAuthorize(clientId, cookieHeader, s, reg) ==
    IF clientId = <<>> THEN Response(400, "Invalid request")
    ELSE With(clientIdAlreadyApproved(cookieHeader, clientId, s), LAMBDA approved :
         IF approved.threw THEN InternalServerError
         ELSE IF approved.v THEN redirectToNotion(AuthRequest(clientId), <<>>)
         ELSE IF clientId \notin reg THEN Response(400, "Client not found")
         ELSE renderApprovalDialog(ClientName(clientId),
                                   DialogState(AuthRequest(clientId))))

\* app.post("/authorize")
PostAuthorize(approved, stateData, cookieHeader, s) ==
    With(parseRedirectApproval(approved, stateData, cookieHeader, s), LAMBDA parsed :
        IF parsed.threw THEN InternalServerError
        ELSE IF Falsy(GetProp(parsed.state, K_oauthReqInfo).v)
        THEN Response(400, "Invalid request")
        ELSE redirectToNotion(GetProp(parsed.state, K_oauthReqInfo).v,
                              parsed.setCookie))

-----------------------------------------------------------------------------
(* The deployment, one browser and other clients: requests in any order    *)

MaxPosts == 2

\* the configured signing secret: "k1"
Secrets == {<<107, 49>>}

\* client ids of /authorize queries: "a", "b"
ClientIds == {<<97>>, <<98>>}

\* "a" stays registered; "b" is registered and removed over time
Transient == {<<98>>}

\* the text of a dialog state with the given oauthReqInfo
StateText(oauthReqInfo) == JSONstringify(DialogState(oauthReqInfo))

\* state fields a POST /authorize can carry: the states of the dialogs, a
\* request without clientId, with a number as clientId, oauthReqInfo 0, 5 and
\* null, text that is not JSON ("{x"), and no field
PostStates ==
    {Field(StateText(AuthRequest(c))) : c \in ClientIds}
    \cup {Field(StateText(JObj(<<>>))),
          Field(StateText(JObj(<<JStr(K_clientId), JNum(7)>>))),
          Field(StateText(JNum(0))),
          Field(StateText(JNum(5))),
          Field(StateText(JNull)),
          Field(<<123, 120>>),
          NoField}

\* approved fields: "true", "false", none
PostApproved == {Field(S_true), Field(<<102, 97, 108, 115, 101>>), NoField}

\* the Cookie header for a cookie value
CookieHeader(value) ==
    IF value = <<>> THEN <<>> ELSE COOKIE_NAME \o <<61>> \o value

\* Cookie headers of clients other than the browser: none, a payload that is
\* not base64 ("ab.!"), and cookies signed for ["a"] under "k1" and "zz"
OtherHeaders ==
    {<<>>,
     CookieHeader(<<97, 98, 46, 33>>),
     CookieHeader(SignedCookieValue(<<JStr(<<97>>)>>, <<107, 49>>).v),
     CookieHeader(SignedCookieValue(<<JStr(<<97>>)>>, <<122, 122>>).v)}

NoRequest ==
    [method |-> "none", from |-> "none", clientId |-> <<>>, cookie |-> <<>>,
     approved |-> NoField, state |-> NoField]

GetRequest(from, clientId, cookie) ==
    [method |-> "GET", from |-> from, clientId |-> clientId, cookie |-> cookie,
     approved |-> NoField, state |-> NoField]

PostRequest(from, approved, state, cookie) ==
    [method |-> "POST", from |-> from, clientId |-> <<>>, cookie |-> cookie,
     approved |-> approved, state |-> state]

\* the character references a browser replaces in an attribute value:
\* &amp; &lt; &gt; &quot; &apos; and &#39;
CharacterReferences ==
    {[text |-> <<38, 97, 109, 112, 59>>, ch |-> 38],
     [text |-> <<38, 108, 116, 59>>, ch |-> 60],
     [text |-> <<38, 103, 116, 59>>, ch |-> 62],
     [text |-> <<38, 113, 117, 111, 116, 59>>, ch |-> 34],
     [text |-> <<38, 97, 112, 111, 115, 59>>, ch |-> 39],
     [text |-> <<38, 35, 51, 57, 59>>, ch |-> 39]}

\* the references that start at position i of the text
ReferencesAt(text, i) ==
    {r \in CharacterReferences :
        /\ i + Len(r.text) - 1 <= Len(text)
        /\ SubSeq(text, i, i + Len(r.text) - 1) = r.text}

\* the text with its character references replaced
DecodeCharacterReferences(text) ==
    IF \A i \in 1..Len(text) : text[i] # 38 THEN text
    ELSE Concat([i \in 1..Len(text) |->
            IF ReferencesAt(text, i) # {}
            THEN <<(CHOOSE r \in ReferencesAt(text, i) : TRUE).ch>>
            ELSE IF \E j \in 1..(i - 1) : \E r \in ReferencesAt(text, j) :
                        i < j + Len(r.text)
            THEN <<>>
            ELSE <<text[i]>>])

\* the value of the single-quoted attribute as the browser reads it: up to
\* the first single quote, character references replaced
HtmlAttributeValue(text) ==
    IF \E i \in 1..Len(text) : text[i] = 39
    THEN DecodeCharacterReferences(
             SubSeq(text, 1, (CHOOSE i \in 1..Len(text) :
                            text[i] = 39 /\ \A j \in 1..(i - 1) : text[j] # 39) - 1))
    ELSE DecodeCharacterReferences(text)

NoCall ==
    [fn |-> "none", done |-> FALSE, kind |-> "none", header |-> <<>>,
     clientId |-> <<>>, secret |-> <<>>, secret2 |-> <<>>, list |-> <<>>,
     payload |-> <<>>, pos |-> 0, ch |-> 0]

Init ==
    /\ secret \in Secrets
    /\ registered = ClientIds \ Transient
    /\ jar = <<>>
    /\ rendered = {}
    /\ granted = {}
    /\ posts = 0
    /\ req = NoRequest
    /\ resp = Response(0, "")
    /\ call = NoCall
    /\ ret = Returned(JNull)
    /\ callbacks = <<>>
    /\ upstream = <<>>
    /\ completions = <<>>

\* the client id a state text names, when it names a non-empty string
GrantedBy(stateData) ==
    LET cid == GetProp(GetProp(JSONparse(stateData.s).v, K_oauthReqInfo).v,
                       K_clientId).v
    IN IF cid.t = "string" /\ cid.s # <<>> THEN {cid.s} ELSE {}

\* a GET /authorize and its response; the dialog rendered is remembered
DoGet(from, clientId, cookie) ==
    /\ req' = GetRequest(from, clientId, cookie)
    /\ resp' = GetAuthorize(clientId, cookie, secret, registered)
    /\ rendered' = IF resp'.status = 200 THEN rendered \cup {resp'.stateField}
                   ELSE rendered
    /\ UNCHANGED <<secret, registered, jar, granted, posts, call, ret>>
    /\ UNCHANGED callbackVars

\* a POST /authorize and its response; the browser keeps the cookie set
DoPost(from, approved, state, cookie) ==
    /\ req' = PostRequest(from, approved, state, cookie)
    /\ resp' = PostAuthorize(approved, state, cookie, secret)
    /\ jar' = IF from = "browser" /\ resp'.setCookie # <<>> THEN resp'.setCookie
              ELSE jar
    /\ granted' = IF from = "browser" /\ resp'.status = 302
                  THEN granted \cup GrantedBy(state) ELSE granted
    /\ UNCHANGED <<secret, registered, rendered, call, ret>>
    /\ UNCHANGED callbackVars

\* the forms posted: every state with approved=true, and a dialog's state or
\* none with approval denied or absent
PostForms ==
    {<<Field(S_true), s>> : s \in PostStates}
    \cup {<<a, s>> : a \in PostApproved \ {Field(S_true)},
                     s \in {Field(StateText(AuthRequest(<<97>>))), NoField}}

BrowserGetAuthorize == \E c \in ClientIds \cup {<<>>} :
    DoGet("browser", c, CookieHeader(jar))

\* the user presses Authorize on the dialog the browser shows
BrowserApproveDialog ==
    /\ req.from = "browser"
    /\ resp.status = 200
    /\ posts < MaxPosts
    /\ posts' = posts + 1
    /\ DoPost("browser", Field(S_true), Field(HtmlAttributeValue(resp.stateField)),
              CookieHeader(jar))

\* any other form the browser is made to post
BrowserPostAuthorize == \E f \in PostForms :
    /\ posts < MaxPosts
    /\ posts' = posts + 1
    /\ DoPost("browser", f[1], f[2], CookieHeader(jar))

OtherGetAuthorize == \E c \in {<<97>>, <<>>}, h \in OtherHeaders :
    DoGet("other", c, h)

OtherPostAuthorize == \E h \in OtherHeaders :
    /\ DoPost("other", Field(S_true), Field(StateText(AuthRequest(<<97>>))), h)
    /\ UNCHANGED posts

RegisterClient == \E c \in Transient :
    /\ c \notin registered
    /\ registered' = registered \cup {c}
    /\ UNCHANGED <<secret, jar, rendered, granted, posts, req, resp, call, ret>>
    /\ UNCHANGED callbackVars

UnregisterClient == \E c \in registered \cap Transient :
    /\ registered' = registered \ {c}
    /\ UNCHANGED <<secret, jar, rendered, granted, posts, req, resp, call, ret>>
    /\ UNCHANGED callbackVars

Next ==
    \/ BrowserGetAuthorize
    \/ BrowserApproveDialog
    \/ BrowserPostAuthorize
    \/ OtherGetAuthorize
    \/ OtherPostAuthorize
    \/ RegisterClient
    \/ UnregisterClient

Spec == Init /\ [][Next]_vars

-----------------------------------------------------------------------------
(* The codec and the consent gate applied to drawn inputs                  *)

MaxList == 2

\* client id strings: "a", the empty string, "é" (Latin-1), "€" (outside it)
IdStrings == {<<97>>, <<>>, <<233>>, <<8364>>}

\* the non-empty lists of at most MaxList client ids
Lists == UNION {[1..n -> IdStrings] : n \in 1..MaxList}

AsArray(L) == JArr([i \in 1..Len(L) |-> JStr(L[i])])

\* signing secrets "k1" and "k2"
CodecSecrets == {<<107, 49>>, <<107, 50>>, <<107, 49, 0>>}

\* payloads that are no list of strings: {x  {"a":1}  7  null  ["a",null]  ["a",7]
OtherPayloads ==
    {<<123, 120>>,
     JSONstringify(JObj(<<JStr(<<97>>), JNum(1)>>)),
     JSONstringify(JNum(7)),
     JSONstringify(JNull),
     JSONstringify(JArr(<<JStr(<<97>>), JNull>>)),
     JSONstringify(JArr(<<JStr(<<97>>), JNum(7)>>))}

\* characters a tampered cookie gets: 0 1 A B E F g space + . = ! Q R
TamperChars == {48, 49, 65, 66, 69, 70, 103, 32, 43, 46, 61, 33, 81, 82}

\* the cookie values tampered with: those of ["a"] and [""]
TamperLists == {<<<<97>>>>, <<<<>>>>}

ReplaceAt(s, pos, ch) == [s EXCEPT ![pos] = ch]

\* Cookie headers by kind, for the secret "k1"
CraftedHeaders ==
    LET k == <<107, 49>>
        valid == SignedCookieValue(<<JStr(<<97>>)>>, k).v
        parts == Split(valid, 46)
    IN {[kind |-> "absent", header |-> <<>>],
        [kind |-> "other cookie", header |-> <<120, 61, 49>>],
        [kind |-> "one part", header |-> CookieHeader(parts[1])],
        [kind |-> "three parts", header |-> CookieHeader(valid \o <<46, 97>>)],
        [kind |-> "payload not base64",
         header |-> CookieHeader(parts[1] \o <<46, 87, 33, 33, 33>>)],
        [kind |-> "signature not hex",
         header |-> CookieHeader(<<122, 122>> \o <<46>> \o parts[2])],
        [kind |-> "signature empty", header |-> CookieHeader(<<46>> \o parts[2])],
        [kind |-> "signature does not verify",
         header |-> CookieHeader(SignedCookieValue(<<JStr(<<97>>)>>, <<107, 50>>).v)],
        [kind |-> "payload not JSON",
         header |-> CookieHeader(SignPayload(<<123, 120>>, k).v)],
        [kind |-> "valid", header |-> CookieHeader(valid)],
        [kind |-> "valid",
         header |-> CookieHeader(SignedCookieValue(<<JStr(<<>>)>>, k).v)],
        [kind |-> "valid", header |-> <<120, 61, 49, 59, 32>> \o CookieHeader(valid)]}

\* the applications checked: the function, its inputs, and whether applied
RoundTripCalls ==
    {[NoCall EXCEPT !.fn = "roundtrip", !.list = L,
                    !.payload = JSONstringify(AsArray(L)), !.secret = k] :
        L \in Lists, k \in CodecSecrets}

RekeyCalls ==
    {[NoCall EXCEPT !.fn = "rekey", !.payload = P, !.secret = k[1],
                    !.secret2 = k[2], !.clientId = c] :
        P \in {JSONstringify(AsArray(L)) : L \in Lists} \cup OtherPayloads,
        k \in {kk \in CodecSecrets \X CodecSecrets : kk[1] # kk[2]},
        c \in IdStrings}

TamperCalls ==
    UNION {{[NoCall EXCEPT !.fn = "tamper", !.list = L,
                           !.payload = JSONstringify(AsArray(L)),
                           !.secret = k, !.pos = pos, !.ch = ch] :
               pos \in 1..Len(SignedCookieValue(AsArray(L).a, k).v),
               ch \in TamperChars} :
           L \in TamperLists, k \in CodecSecrets}

ApprovedCalls ==
    {[NoCall EXCEPT !.fn = "clientIdAlreadyApproved", !.kind = h.kind,
                    !.header = h.header, !.clientId = c, !.secret = <<107, 49>>] :
        h \in CraftedHeaders, c \in {<<97>>, <<>>}}

GetAuthorizeCalls ==
    {[NoCall EXCEPT !.fn = "GET /authorize", !.kind = h.kind, !.header = h.header,
                    !.clientId = c, !.secret = k] :
        h \in CraftedHeaders, c \in {<<97>>, <<98>>, <<>>},
        k \in {<<107, 49>>, <<>>}}

CodecInit ==
    /\ secret = <<107, 49>>
    /\ registered = ClientIds \ Transient
    /\ jar = <<>>
    /\ rendered = {}
    /\ granted = {}
    /\ posts = 0
    /\ req = NoRequest
    /\ resp = Response(0, "")
    /\ call \in RoundTripCalls \cup RekeyCalls \cup TamperCalls \cup ApprovedCalls
                \cup GetAuthorizeCalls
    /\ ret = Returned(JNull)
    /\ callbacks = <<>>
    /\ upstream = <<>>
    /\ completions = <<>>

Unused == <<secret, registered, jar, rendered, granted, posts, req, resp,
            callbacks, upstream, completions>>

\* the application of call.fn happens once
Apply(fn, header, result) ==
    /\ call.fn = fn
    /\ ~call.done
    /\ call' = [call EXCEPT !.done = TRUE, !.header = header]
    /\ ret' = result
    /\ UNCHANGED Unused

\* decode(encode(L, k), k)
CodecRoundTrip ==
    With(SignPayload(call.payload, call.secret), LAMBDA value :
        Apply("roundtrip", CookieHeader(value.v),
              IF value.threw THEN Threw
              ELSE getApprovedClientsFromCookie(CookieHeader(value.v), call.secret)))

\* decode(encode(P, k1), k2) and the consent gate on it, k1 # k2
CodecRekey ==
    With(SignPayload(call.payload, call.secret), LAMBDA value :
        /\ call.fn = "rekey" => ~value.threw
        /\ Apply("rekey", CookieHeader(value.v),
                 [decoded |-> getApprovedClientsFromCookie(
                                  CookieHeader(value.v), call.secret2),
                  approved |-> clientIdAlreadyApproved(
                                   CookieHeader(value.v), call.clientId,
                                   call.secret2)]))

\* decode of a valid cookie value with one character replaced by another
CodecTamper ==
    With(SignPayload(call.payload, call.secret).v, LAMBDA value :
        /\ call.fn = "tamper" => value[call.pos] # call.ch
        /\ With(CookieHeader(ReplaceAt(value, call.pos, call.ch)), LAMBDA tampered :
               Apply("tamper", tampered,
                     getApprovedClientsFromCookie(tampered, call.secret))))

\* clientIdAlreadyApproved on the crafted headers
CodecApproved ==
    Apply("clientIdAlreadyApproved", call.header,
          clientIdAlreadyApproved(call.header, call.clientId, call.secret))

\* GET /authorize on the crafted headers, "a" registered
CodecGetAuthorize ==
    Apply("GET /authorize", call.header,
          GetAuthorize(call.clientId, call.header, call.secret, {<<97>>}))

CodecNext ==
    \/ CodecRoundTrip
    \/ CodecRekey
    \/ CodecTamper
    \/ CodecApproved
    \/ CodecGetAuthorize

CodecSpec == CodecInit /\ [][CodecNext]_vars

-----------------------------------------------------------------------------
(* GET /callback and the token exchange (auth-handler.ts, upstream-utils.ts) *)

\* property names and texts of the token exchange: "access_token", "bot_id",
\* "workspace_id", "workspace_name", "owner", "grant_type", "code",
\* "redirect_uri", "authorization_code", "Notion User", "Basic "
K_access_token ==
    <<97, 99, 99, 101, 115, 115, 95, 116, 111, 107, 101, 110>>

K_bot_id ==
    <<98, 111, 116, 95, 105, 100>>

K_workspace_id ==
    <<119, 111, 114, 107, 115, 112, 97, 99, 101, 95, 105, 100>>

K_workspace_name ==
    <<119, 111, 114, 107, 115, 112, 97, 99, 101, 95, 110, 97, 109, 101>>

K_owner ==
    <<111, 119, 110, 101, 114>>

K_grant_type ==
    <<103, 114, 97, 110, 116, 95, 116, 121, 112, 101>>

K_code ==
    <<99, 111, 100, 101>>

K_redirect_uri ==
    <<114, 101, 100, 105, 114, 101, 99, 116, 95, 117, 114, 105>>

S_authorization_code ==
    <<97, 117, 116, 104, 111, 114, 105, 122, 97, 116, 105, 111, 110, 95,
    99, 111, 100, 101>>

S_NotionUser ==
    <<78, 111, 116, 105, 111, 110, 32, 85, 115, 101, 114>>

S_Basic ==
    <<66, 97, 115, 105, 99, 32>>

\* env.NOTION_OAUTH_CLIENT_SECRET ("s3")
NOTION_OAUTH_CLIENT_SECRET == <<115, 51>>

\* no Response object (null)
NoResponse == Response(0, "")

\* the request fetchUpstreamAuthToken hands to fetch
TokenRequest(upstream_url, client_id, client_secret, code, redirect_uri) ==
    [url |-> upstream_url,
     method |-> "POST",
     authorization |-> S_Basic \o btoa(client_id \o <<58>> \o client_secret).v,
     body |-> JSONstringify(JObj(<<JStr(K_grant_type), JStr(S_authorization_code),
                                   JStr(K_code), JStr(code),
                                   JStr(K_redirect_uri), JStr(redirect_uri)>>))]

\* what fetchUpstreamAuthToken gives its caller: the pair [credential, error
\* response], or an exception
TokenResult(credential, err) ==
    [threw |-> FALSE, credential |-> credential, err |-> err]

TokenThrew == [threw |-> TRUE, credential |-> JNull, err |-> NoResponse]

\* fetchUpstreamAuthToken sending its request twice
fetchUpstreamAuthToken_SendsTwice(upstream_url, client_id, client_secret, code, redirect_uri) ==
    IF ~code.present \/ code.s = <<>>
    THEN [requests |-> <<>>,
          result |-> TokenResult(JNull, Response(400, "Missing code"))]
    ELSE [requests |-> <<TokenRequest(upstream_url, client_id, client_secret,
                                      code.s, redirect_uri),
                         TokenRequest(upstream_url, client_id, client_secret,
                                      code.s, redirect_uri)>>,
          result |-> TokenThrew]

\* fetchUpstreamAuthToken up to its await of fetch: the requests it sends,
\* and its result when it returns without sending
fetchUpstreamAuthToken_Send(upstream_url, client_id, client_secret, code, redirect_uri) ==
    IF ~code.present \/ code.s = <<>>
    THEN [requests |-> <<>>,
          result |-> TokenResult(JNull, Response(400, "Missing code"))]
    ELSE [requests |-> <<TokenRequest(upstream_url, client_id, client_secret,
                                      code.s, redirect_uri)>>,
          result |-> TokenThrew]

\* fetchUpstreamAuthToken answering a non-success status with the upstream's
\* body
fetchUpstreamAuthToken_EchoesBody(answer) ==
    IF answer.failed THEN TokenThrew
    ELSE IF ~answer.ok
    THEN TokenResult(JNull, Response(500, answer.body))
    ELSE With(JSONparse(answer.body), LAMBDA body :
         IF body.threw \/ GetProp(body.v, K_access_token).threw THEN TokenThrew
         ELSE IF Falsy(GetProp(body.v, K_access_token).v)
         THEN TokenResult(JNull, Response(400, "Missing access token"))
         ELSE TokenResult(body.v, NoResponse))

\* fetchUpstreamAuthToken taking the body of every answer for a credential
fetchUpstreamAuthToken_IgnoresStatus(answer) ==
    IF answer.failed THEN TokenThrew
    ELSE With(JSONparse(answer.body), LAMBDA body :
         IF body.threw THEN TokenThrew
         ELSE TokenResult(body.v, NoResponse))

\* fetchUpstreamAuthToken from the outcome of fetch on: fetch rejects on a
\* network failure, resp.json() rejects on a body that is not JSON, and
\* body.access_token throws on the body null
fetchUpstreamAuthToken_Receive(answer) ==
    IF answer.failed THEN TokenThrew
    ELSE IF ~answer.ok
    THEN TokenResult(JNull, Response(500, "Failed to fetch access token"))
    ELSE With(JSONparse(answer.body), LAMBDA body :
         IF body.threw \/ GetProp(body.v, K_access_token).threw THEN TokenThrew
         ELSE IF Falsy(GetProp(body.v, K_access_token).v)
         THEN TokenResult(JNull, Response(400, "Missing access token"))
         ELSE TokenResult(body.v, NoResponse))

\* the options app.get("/callback") would pass with workspace_id as userId
CompleteAuthorizationOptions_UserIsWorkspace(oauthReqInfo, credential) ==
    [request |-> oauthReqInfo,
     userId |-> GetProp(credential, K_workspace_id).v,
     label |-> IF Falsy(GetProp(credential, K_workspace_name).v)
               THEN JStr(S_NotionUser)
               ELSE GetProp(credential, K_workspace_name).v,
     scope |-> GetProp(oauthReqInfo, K_scope).v,
     props |-> [bot_id |-> GetProp(credential, K_bot_id).v,
                workspace_id |-> GetProp(credential, K_workspace_id).v,
                workspace_name |-> GetProp(credential, K_workspace_name).v,
                owner |-> GetProp(credential, K_owner).v,
                accessToken |-> GetProp(credential, K_access_token).v]]

\* the options app.get("/callback") passes to completeAuthorization
CompleteAuthorizationOptions(oauthReqInfo, credential) ==
    [request |-> oauthReqInfo,
     userId |-> GetProp(credential, K_bot_id).v,
     label |-> IF Falsy(GetProp(credential, K_workspace_name).v)
               THEN JStr(S_NotionUser)
               ELSE GetProp(credential, K_workspace_name).v,
     scope |-> GetProp(oauthReqInfo, K_scope).v,
     props |-> [bot_id |-> GetProp(credential, K_bot_id).v,
                workspace_id |-> GetProp(credential, K_workspace_id).v,
                workspace_name |-> GetProp(credential, K_workspace_name).v,
                owner |-> GetProp(credential, K_owner).v,
                accessToken |-> GetProp(credential, K_access_token).v]]

\* no call of completeAuthorization
NoOptions ==
    [request |-> JUndefined, userId |-> JUndefined, label |-> JUndefined,
     scope |-> JUndefined,
     props |-> [bot_id |-> JUndefined, workspace_id |-> JUndefined,
                workspace_name |-> JUndefined, owner |-> JUndefined,
                accessToken |-> JUndefined]]

\* where a handler stands after a step: answered (pc "done", resp), awaiting
\* fetch (pc "exchanging", the requests sent) or awaiting completeAuthorization
\* (pc "completing", the options passed)
Answered(response) ==
    [pc |-> "done", resp |-> response, oauthReqInfo |-> JUndefined,
     requests |-> <<>>, options |-> NoOptions]

\* app.get("/callback") up to the await of fetch
CallbackReceived(state, code) ==
    IF ~state.present \/ state.s = <<>>
    THEN Answered(Response(400, "Missing state"))
    ELSE With(atob(state.s), LAMBDA decoded :
         IF decoded.threw \/ JSONparse(decoded.v).threw
         THEN Answered(Response(400, "Invalid state parameter"))
         ELSE With(JSONparse(decoded.v).v, LAMBDA oauthReqInfo :
              IF GetProp(oauthReqInfo, K_clientId).threw
              THEN Answered(InternalServerError)
              ELSE IF Falsy(GetProp(oauthReqInfo, K_clientId).v)
              THEN Answered(Response(400, "Invalid state"))
              ELSE IF ~code.present \/ code.s = <<>>
              THEN Answered(Response(400, "Missing code"))
              ELSE [pc |-> "exchanging", resp |-> NoResponse,
                    oauthReqInfo |-> oauthReqInfo,
                    requests |-> fetchUpstreamAuthToken_Send(
                        "https://api.notion.com/v1/oauth/token",
                        NOTION_OAUTH_CLIENT_ID, NOTION_OAUTH_CLIENT_SECRET,
                        code, CallbackHref).requests,
                    options |-> NoOptions]))

\* app.get("/callback") calling completeAuthorization whatever the exchange
\* returned
CallbackExchanged_IgnoresError(oauthReqInfo, result) ==
    IF result.threw THEN Answered(InternalServerError)
    ELSE [pc |-> "completing", resp |-> NoResponse,
          oauthReqInfo |-> oauthReqInfo, requests |-> <<>>,
          options |-> CompleteAuthorizationOptions(oauthReqInfo,
                                                   result.credential)]

\* app.get("/callback") from the result of fetchUpstreamAuthToken to the
\* await of completeAuthorization
CallbackExchanged(oauthReqInfo, result) ==
    IF result.threw THEN Answered(InternalServerError)
    ELSE IF result.err # NoResponse THEN Answered(result.err)
    ELSE [pc |-> "completing", resp |-> NoResponse,
          oauthReqInfo |-> oauthReqInfo, requests |-> <<>>,
          options |-> CompleteAuthorizationOptions(oauthReqInfo,
                                                   result.credential)]

\* app.get("/callback") after completeAuthorization: Response.redirect of
\* the URL it returned, a 500 when it threw
CallbackCompleted(completed) ==
    IF completed.threw THEN Answered(InternalServerError)
    ELSE Answered([Response(302, "") EXCEPT !.location = completed.redirectTo])

\* the /callback requests in progress at once
MaxCallbacks == 2

\* authorization codes ("c1", "c2")
Code1 == <<99, 49>>
Code2 == <<99, 50>>

\* the state parameter redirectToNotion sends: btoa(JSON.stringify(oauthReqInfo))
StateOf(oauthReqInfo) == btoa(JSONstringify(oauthReqInfo)).v

\* an AuthRequest no /authorize request was made for, composed by a client:
\* clientId "x" and scope ["admin"]
ForgedRequest ==
    JObj(<<JStr(K_clientId), JStr(<<120>>),
           JStr(K_scope), JArr(<<JStr(<<97, 100, 109, 105, 110>>)>>)>>)

\* the query strings of the /callback requests a browser can send: state
\* absent, empty, not base64 ("!"), not JSON ("{x"), the JSON values null, 5,
\* "s" and {}, and the state of an authorization request with the code
\* absent, empty or present, and the state of the forged request
CallbackRequests ==
    {[state |-> NoField, code |-> Field(Code1)],
     [state |-> Field(<<>>), code |-> Field(Code1)],
     [state |-> Field(<<33>>), code |-> Field(Code1)],
     [state |-> Field(btoa(<<123, 120>>).v), code |-> Field(Code1)],
     [state |-> Field(StateOf(JNull)), code |-> Field(Code1)],
     [state |-> Field(StateOf(JNum(5))), code |-> Field(Code1)],
     [state |-> Field(StateOf(JStr(<<115>>))), code |-> Field(Code1)],
     [state |-> Field(StateOf(JObj(<<>>))), code |-> Field(Code1)],
     [state |-> Field(StateOf(AuthRequest(<<97>>))), code |-> NoField],
     [state |-> Field(StateOf(AuthRequest(<<97>>))), code |-> Field(<<>>)],
     [state |-> Field(StateOf(AuthRequest(<<97>>))), code |-> Field(Code1)],
     [state |-> Field(StateOf(AuthRequest(<<97>>))), code |-> Field(Code2)],
     [state |-> Field(StateOf(ForgedRequest)), code |-> Field(Code1)]}

\* the same callback sent again while the first is in progress
ReplayedRequests ==
    {[state |-> Field(StateOf(AuthRequest(<<97>>))), code |-> Field(Code1)]}

\* the code arguments of a call of fetchUpstreamAuthToken
TokenCalls == {NoField, Field(<<>>), Field(Code1)}

\* a credential of the upstream: access token "t", bot "b1", workspace "w1"
Credential(accessToken, name) ==
    JObj(<<JStr(K_access_token), accessToken,
           JStr(K_bot_id), JStr(<<98, 49>>),
           JStr(K_workspace_id), JStr(<<119, 49>>)>>
         \o name
         \o <<JStr(K_owner), JObj(<<>>)>>)

\* the outcomes of fetch: the network call fails, a non-success status, or a
\* success status with a body that is not JSON, null, without access_token,
\* with an empty access_token, or a credential whose workspace_name is
\* present ("W"), absent or empty
UpstreamAnswers ==
    {[failed |-> TRUE, ok |-> FALSE, body |-> <<>>],
     [failed |-> FALSE, ok |-> FALSE,
      body |-> JSONstringify(JObj(<<JStr(<<101>>), JStr(<<120>>)>>))],
     [failed |-> FALSE, ok |-> TRUE, body |-> <<123, 120>>],
     [failed |-> FALSE, ok |-> TRUE, body |-> JSONstringify(JNull)],
     [failed |-> FALSE, ok |-> TRUE, body |-> JSONstringify(JObj(<<>>))],
     [failed |-> FALSE, ok |-> TRUE,
      body |-> JSONstringify(Credential(JStr(<<>>), <<>>))],
     [failed |-> FALSE, ok |-> TRUE,
      body |-> JSONstringify(Credential(JStr(<<116>>),
                                        <<JStr(K_workspace_name), JStr(<<87>>)>>))],
     [failed |-> FALSE, ok |-> TRUE,
      body |-> JSONstringify(Credential(JStr(<<116>>), <<>>))],
     [failed |-> FALSE, ok |-> TRUE,
      body |-> JSONstringify(Credential(JStr(<<116>>),
                                        <<JStr(K_workspace_name), JStr(<<>>)>>))]}

NoAnswer == [failed |-> FALSE, ok |-> FALSE, body |-> <<>>]

\* what completeAuthorization gives back: the URL of the client to redirect
\* to, or an exception
Completions ==
    {[threw |-> TRUE, redirectTo |-> NoUrl],
     [threw |-> FALSE,
      redirectTo |-> [base |-> "https://client.example/cb", query |-> <<>>]],
     [threw |-> FALSE,
      redirectTo |-> [base |-> "https://other.example/cb", query |-> <<>>]]}

\* fetchUpstreamAuthToken has not returned
NoResult == [threw |-> FALSE, credential |-> JUndefined, err |-> NoResponse]

IdleCallback ==
    [entry |-> "", state |-> NoField, code |-> NoField, pc |-> "idle",
     resp |-> NoResponse, oauthReqInfo |-> JUndefined, result |-> NoResult,
     options |-> NoOptions, completed |-> FALSE]

\* the requests handed to fetch by callback r, as the upstream records them
Sent(r, code, requests) ==
    [i \in 1..Len(requests) |->
        [by |-> r, code |-> code.s, request |-> requests[i],
         answered |-> FALSE, answer |-> NoAnswer]]

CallbackInit ==
    /\ secret = <<107, 49>>
    /\ registered = ClientIds \ Transient
    /\ jar = <<>>
    /\ rendered = {}
    /\ granted = {}
    /\ posts = 0
    /\ req = NoRequest
    /\ resp = Response(0, "")
    /\ call = NoCall
    /\ ret = Returned(JNull)
    /\ callbacks = [r \in 1..MaxCallbacks |-> IdleCallback]
    /\ upstream = <<>>
    /\ completions = <<>>

\* a browser sends GET /callback: the handler runs to its answer or to the
\* await of fetch
GetCallback(r, request) ==
    /\ callbacks[r].pc = "idle"
    /\ With(CallbackReceived(request.state, request.code), LAMBDA step :
         /\ callbacks' = [callbacks EXCEPT ![r] =
                [@ EXCEPT !.entry = "/callback", !.state = request.state,
                          !.code = request.code, !.pc = step.pc,
                          !.resp = step.resp,
                          !.oauthReqInfo = step.oauthReqInfo]]
         /\ upstream' = upstream \o Sent(r, request.code, step.requests))
    /\ UNCHANGED <<authorizeVars, call, ret, completions>>

\* fetchUpstreamAuthToken is called on its own: it returns at once or awaits
\* fetch
CallToken(r, code) ==
    /\ callbacks[r].pc = "idle"
    /\ With(fetchUpstreamAuthToken_Send("https://api.notion.com/v1/oauth/token",
                                        NOTION_OAUTH_CLIENT_ID,
                                        NOTION_OAUTH_CLIENT_SECRET, code,
                                        CallbackHref), LAMBDA sent :
         /\ callbacks' = [callbacks EXCEPT ![r] =
                [@ EXCEPT !.entry = "fetchUpstreamAuthToken", !.code = code,
                          !.pc = IF sent.requests = <<>> THEN "done"
                                 ELSE "exchanging",
                          !.result = IF sent.requests = <<>> THEN sent.result
                                     ELSE NoResult]]
         /\ upstream' = upstream \o Sent(r, code, sent.requests))
    /\ UNCHANGED <<authorizeVars, call, ret, completions>>

\* the upstream accepts a code once: it answers success to at most one
\* exchange of a code
MayAnswer(r, answer) ==
    (~answer.failed /\ answer.ok) =>
        \A i \in 1..Len(upstream) :
            (upstream[i].code = callbacks[r].code.s /\ upstream[i].answered)
                => ~upstream[i].answer.ok

Answer(r, answer) ==
    [i \in 1..Len(upstream) |->
        IF upstream[i].by = r
        THEN [upstream[i] EXCEPT !.answered = TRUE, !.answer = answer]
        ELSE upstream[i]]

\* fetch settling with a result kept between requests: the handler uses the
\* outcome of the first exchange the server has seen
FetchSettles_SharedResult(r, answer) ==
    /\ callbacks[r].pc = "exchanging"
    /\ callbacks[r].entry = "/callback"
    /\ MayAnswer(r, answer)
    /\ upstream' = Answer(r, answer)
    /\ With(fetchUpstreamAuthToken_Receive(
                IF \E i \in 1..Len(upstream) : upstream[i].answered
                THEN upstream[CHOOSE i \in 1..Len(upstream) :
                                  upstream[i].answered].answer
                ELSE answer), LAMBDA result :
       With(CallbackExchanged(callbacks[r].oauthReqInfo, result), LAMBDA step :
         /\ callbacks' = [callbacks EXCEPT ![r] =
                [@ EXCEPT !.pc = step.pc, !.resp = step.resp,
                          !.result = result, !.options = step.options]]
         /\ completions' = IF step.pc = "completing"
                           THEN Append(completions,
                                       [by |-> r, options |-> step.options,
                                        returned |-> FALSE,
                                        redirectTo |-> NoUrl])
                           ELSE completions))
    /\ UNCHANGED <<authorizeVars, call, ret>>

\* fetch settles for callback r: fetchUpstreamAuthToken returns or throws,
\* and the handler runs to its answer or to the await of completeAuthorization
FetchSettles(r, answer) ==
    /\ callbacks[r].pc = "exchanging"
    /\ callbacks[r].entry = "/callback"
    /\ MayAnswer(r, answer)
    /\ upstream' = Answer(r, answer)
    /\ With(fetchUpstreamAuthToken_Receive(answer), LAMBDA result :
       With(CallbackExchanged(callbacks[r].oauthReqInfo, result), LAMBDA step :
         /\ callbacks' = [callbacks EXCEPT ![r] =
                [@ EXCEPT !.pc = step.pc, !.resp = step.resp,
                          !.result = result, !.options = step.options]]
         /\ completions' = IF step.pc = "completing"
                           THEN Append(completions,
                                       [by |-> r, options |-> step.options,
                                        returned |-> FALSE,
                                        redirectTo |-> NoUrl])
                           ELSE completions))
    /\ UNCHANGED <<authorizeVars, call, ret>>

\* fetch settles for a call of fetchUpstreamAuthToken on its own
TokenSettles(r, answer) ==
    /\ callbacks[r].pc = "exchanging"
    /\ callbacks[r].entry = "fetchUpstreamAuthToken"
    /\ MayAnswer(r, answer)
    /\ upstream' = Answer(r, answer)
    /\ callbacks' = [callbacks EXCEPT ![r] =
            [@ EXCEPT !.pc = "done",
                      !.result = fetchUpstreamAuthToken_Receive(answer)]]
    /\ UNCHANGED <<authorizeVars, call, ret, completions>>

\* completeAuthorization returns (or throws) and the handler answers
CompleteAuthorizationReturns(r, completed) ==
    /\ callbacks[r].pc = "completing"
    /\ callbacks' = [callbacks EXCEPT ![r] =
            [@ EXCEPT !.pc = "done", !.resp = CallbackCompleted(completed).resp,
                      !.completed = ~completed.threw]]
    /\ completions' = [i \in 1..Len(completions) |->
            IF completions[i].by = r /\ ~completed.threw
            THEN [completions[i] EXCEPT !.returned = TRUE,
                                        !.redirectTo = completed.redirectTo]
            ELSE completions[i]]
    /\ UNCHANGED <<authorizeVars, call, ret, upstream>>

\* the step of a flow before its callback: the browser posts the approved
\* dialog of client "a" and the server redirects it to the upstream
AuthorizeApproved ==
    /\ resp.status = 0
    /\ posts' = posts + 1
    /\ DoPost("browser", Field(S_true), Field(StateText(AuthRequest(<<97>>))),
              CookieHeader(jar))

CallbackNext ==
    \/ AuthorizeApproved
    \/ \E request \in CallbackRequests : GetCallback(1, request)
    \/ \E r \in 2..MaxCallbacks, request \in ReplayedRequests :
           GetCallback(r, request)
    \/ \E code \in TokenCalls : CallToken(1, code)
    \/ \E r \in 1..MaxCallbacks, answer \in UpstreamAnswers :
           FetchSettles(r, answer)
    \/ \E r \in 1..MaxCallbacks, answer \in UpstreamAnswers :
           TokenSettles(r, answer)
    \/ \E r \in 1..MaxCallbacks, completed \in Completions :
           CompleteAuthorizationReturns(r, completed)

CallbackSpec == CallbackInit /\ [][CallbackNext]_vars

-----------------------------------------------------------------------------
(* Properties *)

FalseResult == [threw |-> FALSE, v |-> FALSE]
TrueResult == [threw |-> FALSE, v |-> TRUE]

\* C1: every 302 to the upstream authorize URL is issued by GET /authorize
\* after clientIdAlreadyApproved returned true for the clientId, or by a
\* POST /authorize whose state the server had rendered in a consent dialog.
C1_RedirectOnlyAfterApprovalOrDialog ==
    resp.status = 302 =>
        \/ /\ req.method = "GET"
           /\ clientIdAlreadyApproved(req.cookie, req.clientId, secret) = TrueResult
        \/ /\ req.method = "POST"
           /\ req.state.s \in rendered

\* C2: for every Cookie header that carries no valid cookie (absent, another
\* cookie, not two parts, payload not base64, signature not hex, signature
\* that does not verify, payload not JSON) clientIdAlreadyApproved returns
\* false and does not throw.
C2_MalformedCookieIsFalseNotThrown ==
    (call.done /\ call.fn = "clientIdAlreadyApproved" /\ call.kind # "valid")
        => ret = FalseResult

\* C3: decoding the cookie value encoded for a non-empty list L under a
\* non-empty secret returns exactly L.
C3_RoundTrip ==
    (call.done /\ call.fn = "roundtrip") => ret = Returned(AsArray(call.list))

\* C4: a cookie signed under one secret decodes to null under a different
\* secret, and clientIdAlreadyApproved is false for every clientId.
C4_OtherSecretDecodesToNull ==
    (call.done /\ call.fn = "rekey")
        => /\ ret.decoded = Returned(JNull)
           /\ ret.approved = FalseResult

\* C4, for secrets that are different HMAC keys: a cookie signed under one
\* secret decodes to null under a secret whose bytes differ from it by more
\* than zero bytes at the end, and clientIdAlreadyApproved is false for
\* every clientId.
C4_OtherKeyDecodesToNull ==
    (call.done /\ call.fn = "rekey"
         /\ HmacKey(TextEncode(call.secret)) # HmacKey(TextEncode(call.secret2)))
        => /\ ret.decoded = Returned(JNull)
           /\ ret.approved = FalseResult

\* C4 witness: the cookie of ["a"] signed under "k1", valid under "k1",
\* was decoded under "k2" and asked for "a"
C4_Witness ==
    /\ call.done /\ call.fn = "rekey"
    /\ call.secret = <<107, 49>> /\ call.secret2 = <<107, 50>>
    /\ call.clientId = <<97>>
    /\ getApprovedClientsFromCookie(call.header, call.secret)
           = Returned(AsArray(<<<<97>>>>))
    /\ ret.decoded = Returned(JNull)

\* C5: a valid signed cookie value with one character replaced by a different
\* one decodes to null, wherever the character is.
C5_TamperedCookieIsAbsent ==
    (call.done /\ call.fn = "tamper") => ret = Returned(JNull)

\* C6: clientIdAlreadyApproved is false for an empty clientId whatever the
\* Cookie header, and GET /authorize with an empty clientId answers 400
\* whatever the Cookie header and the secret.
C6_EmptyClientIdNeverApproved ==
    /\ (call.done /\ call.fn = "clientIdAlreadyApproved" /\ call.clientId = <<>>)
           => ret = FalseResult
    /\ (call.done /\ call.fn = "GET /authorize" /\ call.clientId = <<>>)
           => ret = Response(400, "Invalid request")

\* C6 witness: the gate was asked for the empty clientId with a validly
\* signed cookie whose list holds the empty string
C6_Witness ==
    /\ call.done /\ call.fn = "clientIdAlreadyApproved"
    /\ call.clientId = <<>>
    /\ getApprovedClientsFromCookie(call.header, call.secret)
           = Returned(AsArray(<<<<>>>>))
    /\ ret = FalseResult

\* a submission whose approved field is not "true" or whose state is missing
Denied(r) ==
    /\ r.method = "POST"
    /\ (r.approved # Field(S_true) \/ ~r.state.present)

\* C7: a POST /authorize whose approved field is not "true", or whose state
\* field is missing, ends in an error without Set-Cookie and without a
\* redirect, and leaves the browser's cookie as it was.
C7_DeniedPostIsAnError ==
    [][Denied(req') =>
          /\ resp'.status >= 400
          /\ resp'.setCookie = <<>>
          /\ resp'.location = NoUrl
          /\ jar' = jar]_vars

\* C7 witness: the browser, holding a cookie, posted a denied form
C7_Witness ==
    /\ Denied(req)
    /\ req.from = "browser"
    /\ req.cookie # <<>>
    /\ jar # <<>>
    /\ resp.status >= 400

\* the oauthReqInfo of a state text: missing, null or no object
NoOauthReqInfo(text) ==
    With(JSONparse(text), LAMBDA state :
        \/ state.threw
        \/ GetProp(state.v, K_oauthReqInfo).threw
        \/ GetProp(state.v, K_oauthReqInfo).v.t # "object")

\* C8: POST /authorize answers 400 to every invalid submission: approved not
\* "true", state missing, state that is not JSON, state without an
\* oauthReqInfo object.
C8_InvalidPostIs400 ==
    (req.method = "POST" /\ (Denied(req) \/ NoOauthReqInfo(req.state.s)))
        => resp.status = 400

\* C9: once the browser's POST for a clientId was accepted with a 302, every
\* later GET /authorize of the browser for that clientId is answered with
\* a 302 to upstream.
C9_ApprovedStaysApproved ==
    (req.method = "GET" /\ req.from = "browser" /\ req.clientId \in granted)
        => (resp.status = 302 /\ resp.location # NoUrl)

\* the list a Cookie header decodes to, empty when it decodes to none
DecodedList(cookieHeader) ==
    With(getApprovedClientsFromCookie(cookieHeader, secret), LAMBDA decoded :
        IF ~decoded.threw /\ decoded.v.t = "array" THEN decoded.v.a ELSE <<>>)

\* the clientId of the oauthReqInfo of a state text
StateClientId(text) ==
    GetProp(GetProp(JSONparse(text).v, K_oauthReqInfo).v, K_clientId).v

\* the list with c at its end unless it holds c
WithClient(old, c) ==
    IF \E i \in 1..Len(old) : old[i] = c THEN old ELSE old \o <<c>>

\* C10: a POST /authorize answered with 302 for a clientId c sets a cookie
\* that decodes to the list of the request's cookie (empty when absent or
\* not verifying), with c added at the end unless the list holds it.
C10_CookieIsOldListWithClient ==
    (req.method = "POST" /\ resp.status = 302
         /\ StateClientId(req.state.s).t = "string")
        => getApprovedClientsFromCookie(CookieHeader(resp.setCookie), secret)
               = Returned(JArr(WithClient(DecodedList(req.cookie),
                                          StateClientId(req.state.s))))

\* C10 witness: the browser held the cookie of ["a"] and the POST for "b"
\* was accepted
C10_Witness ==
    /\ req.method = "POST" /\ resp.status = 302
    /\ StateClientId(req.state.s) = JStr(<<98>>)
    /\ DecodedList(req.cookie) = <<JStr(<<97>>)>>
    /\ DecodedList(CookieHeader(resp.setCookie)) = <<JStr(<<97>>), JStr(<<98>>)>>

\* C11: every cookie value the server emits in a Set-Cookie header carries a
\* JSON array of pairwise-distinct strings and so decodes, not to null,
\* under the secret it was signed with.
C11_EmittedCookieDecodes ==
    resp.setCookie # <<>> =>
        With(getApprovedClientsFromCookie(CookieHeader(resp.setCookie), secret),
             LAMBDA decoded :
                /\ ~decoded.threw
                /\ decoded.v.t = "array"
                /\ \A i, j \in 1..Len(decoded.v.a) :
                       i # j => decoded.v.a[i] # decoded.v.a[j])

\* C12: GET /authorize, the signing secret configured, answers 400 without
\* clientId, else 302 to the upstream authorize URL when the cookie approves
\* the clientId, else 400 for a client that is not registered, else 200 with
\* the consent page that names the client and holds the AuthRequest in its
\* hidden state field.
C12_GetAuthorizeOutcomes ==
    (call.done /\ call.fn = "GET /authorize" /\ call.secret # <<>>) =>
        IF call.clientId = <<>> THEN ret.status = 400
        ELSE IF clientIdAlreadyApproved(call.header, call.clientId, call.secret)
                    = TrueResult
        THEN /\ ret.status = 302
             /\ ret.location.base = "https://api.notion.com/v1/oauth/authorize"
        ELSE IF call.clientId # <<97>> THEN ret.status = 400
        ELSE /\ ret.status = 200
             /\ ret.clientName = ClientName(call.clientId)
             /\ JSONparse(HtmlAttributeValue(ret.stateField))
                    = Returned(DialogState(AuthRequest(call.clientId)))

\* a request to /authorize for a client id that lookupClient does not know
Unregistered(r, known) ==
    \/ r.method = "GET" /\ r.clientId \notin known
    \/ /\ r.method = "POST"
       /\ GrantedBy(r.state) # {}
       /\ GrantedBy(r.state) \cap known = {}

\* C13: a GET or POST /authorize for a client id that is not registered when
\* the request is handled is answered with a 400-class status and no
\* redirect, whatever the cookie and the requests before.
C13_UnregisteredClientIs400 ==
    [][(registered' = registered /\ Unregistered(req', registered)) =>
          /\ resp'.status \in 400..499
          /\ resp'.location = NoUrl]_vars

\* a /callback query the handler must refuse: state missing, not base64, not
\* JSON or JSON without a clientId, or code missing
HasNoClientId(v) == v.t # "object" \/ GetProp(v, K_clientId).v = JUndefined

BadCallbackQuery(state, code) ==
    \/ ~state.present
    \/ atob(state.s).threw
    \/ JSONparse(atob(state.s).v).threw
    \/ HasNoClientId(JSONparse(atob(state.s).v).v)
    \/ ~code.present

UpstreamRequestsBy(r) == {i \in 1..Len(upstream) : upstream[i].by = r}

CompletionsBy(r) == {i \in 1..Len(completions) : completions[i].by = r}

\* C14: GET /callback with state missing, not base64, not JSON or without a
\* clientId (JSON null, a number or a string included), or with code missing,
\* is answered 400 (never 500), no request is sent to the upstream token
\* endpoint and completeAuthorization is not called.
C14_BadCallbackIs400 ==
    \A r \in DOMAIN callbacks :
        (/\ callbacks[r].entry = "/callback"
         /\ BadCallbackQuery(callbacks[r].state, callbacks[r].code)) =>
            /\ callbacks[r].pc = "done"
            /\ callbacks[r].resp.status = 400
            /\ UpstreamRequestsBy(r) = {}
            /\ CompletionsBy(r) = {}

\* the outcome of fetch for the request of callback r
AnswerTo(r) == upstream[CHOOSE i \in UpstreamRequestsBy(r) : TRUE].answer

\* a success status and a body with a non-empty access_token
HasAccessToken(answer) ==
    /\ ~answer.failed
    /\ answer.ok
    /\ ~JSONparse(answer.body).threw
    /\ JSONparse(answer.body).v.t = "object"
    /\ ~Falsy(GetProp(JSONparse(answer.body).v, K_access_token).v)

CodeMissing(code) == ~code.present \/ code.s = <<>>

\* C15: fetchUpstreamAuthToken returns exactly one of [credential, null] (a
\* success status and a body with a non-empty access_token) and
\* [null, errorResponse] (otherwise: 400 for a missing code, 500 for a
\* non-success status, 400 for a success body without access_token), never
\* both and never neither.
C15_TokenResultIsOneShape ==
    \A r \in DOMAIN callbacks :
        callbacks[r].result # NoResult =>
            /\ ~callbacks[r].result.threw
            /\ IF CodeMissing(callbacks[r].code)
               THEN /\ callbacks[r].result.credential = JNull
                    /\ callbacks[r].result.err.status = 400
               ELSE IF HasAccessToken(AnswerTo(r))
               THEN /\ callbacks[r].result.credential
                           = JSONparse(AnswerTo(r).body).v
                    /\ callbacks[r].result.err = NoResponse
               ELSE /\ callbacks[r].result.credential = JNull
                    /\ callbacks[r].result.err # NoResponse
                    /\ (~AnswerTo(r).failed /\ ~AnswerTo(r).ok)
                           => callbacks[r].result.err.status = 500
                    /\ (~AnswerTo(r).failed /\ AnswerTo(r).ok)
                           => callbacks[r].result.err.status = 400

\* the same for the invocations that return: the exchange did not end in an
\* exception
C15_ReturnedResultIsOneShape ==
    \A r \in DOMAIN callbacks :
        (callbacks[r].result # NoResult /\ ~callbacks[r].result.threw) =>
            IF CodeMissing(callbacks[r].code)
            THEN /\ callbacks[r].result.credential = JNull
                 /\ callbacks[r].result.err.status = 400
            ELSE IF HasAccessToken(AnswerTo(r))
            THEN /\ callbacks[r].result.credential
                        = JSONparse(AnswerTo(r).body).v
                 /\ callbacks[r].result.err = NoResponse
            ELSE /\ callbacks[r].result.credential = JNull
                 /\ callbacks[r].result.err.status
                        = IF AnswerTo(r).ok THEN 400 ELSE 500

\* a success status and a JSON body without the access_token field
LacksAccessToken(answer) ==
    /\ ~answer.failed
    /\ answer.ok
    /\ ~JSONparse(answer.body).threw
    /\ \/ JSONparse(answer.body).v.t # "object"
       \/ GetProp(JSONparse(answer.body).v, K_access_token).v = JUndefined

\* callback r is a /callback request whose fetch has settled
Exchanged(r) ==
    /\ callbacks[r].entry = "/callback"
    /\ callbacks[r].result # NoResult

\* C16: when the upstream token endpoint answers with a success status and a
\* body that lacks the access token field, the /callback request is answered
\* with a 500-class response.
C16_MissingTokenIs500 ==
    \A r \in DOMAIN callbacks :
        (Exchanged(r) /\ LacksAccessToken(AnswerTo(r))) =>
            /\ callbacks[r].pc = "done"
            /\ callbacks[r].resp.status \in 500..599

\* the token exchange failed: the network call failed, the status is not a
\* success, or the body cannot be parsed
ExchangeFailed(answer) ==
    \/ answer.failed
    \/ ~answer.ok
    \/ JSONparse(answer.body).threw

\* C17: a /callback request whose token exchange fails (non-success status,
\* failed network call, or unparsable body) ends in a 500-class response; it
\* never calls completeAuthorization and never redirects.
C17_FailedExchangeIs500 ==
    \A r \in DOMAIN callbacks :
        (Exchanged(r) /\ ExchangeFailed(AnswerTo(r))) =>
            /\ callbacks[r].pc = "done"
            /\ callbacks[r].resp.status \in 500..599
            /\ callbacks[r].resp.location = NoUrl
            /\ CompletionsBy(r) = {}

\* two callbacks whose exchanges failed, one by the network and one by a
\* non-success status, both answered 500
C17_Witness ==
    \E r, q \in DOMAIN callbacks :
        /\ Exchanged(r) /\ AnswerTo(r).failed
        /\ callbacks[r].resp = InternalServerError
        /\ Exchanged(q) /\ ~AnswerTo(q).failed /\ ~AnswerTo(q).ok
        /\ callbacks[q].resp.status = 500

\* C18: each invocation of fetchUpstreamAuthToken sends at most one request
\* to the upstream token endpoint, none when code is missing, and does not
\* repeat it after a failure; each /callback request presents its
\* authorization code to the upstream at most once.
C18_AtMostOneUpstreamRequest ==
    \A r \in DOMAIN callbacks :
        /\ Cardinality(UpstreamRequestsBy(r)) <= 1
        /\ CodeMissing(callbacks[r].code) => UpstreamRequestsBy(r) = {}
        /\ \A i \in UpstreamRequestsBy(r) :
               GetProp(JSONparse(upstream[i].request.body).v, K_code).v
                   = JStr(callbacks[r].code.s)

\* an invocation whose exchange failed has returned, and a /callback request
\* whose exchange failed has been answered, each after a single request
C18_Witness ==
    \E r, q \in DOMAIN callbacks :
        /\ callbacks[r].entry = "fetchUpstreamAuthToken"
        /\ callbacks[r].pc = "done"
        /\ Cardinality(UpstreamRequestsBy(r)) = 1
        /\ ExchangeFailed(AnswerTo(r))
        /\ Exchanged(q) /\ callbacks[q].pc = "done"
        /\ Cardinality(UpstreamRequestsBy(q)) = 1
        /\ ExchangeFailed(AnswerTo(q))

\* the calls of completeAuthorization made by callbacks carrying this code
CompletionsOf(cbs, cmps, code) ==
    {i \in 1..Len(cmps) : cbs[cmps[i].by].code.s = code}

\* C19: with any number of /callback requests carrying the same
\* authorization code, in any interleaving, completeAuthorization is called
\* at most once for that code (the upstream answers success to at most one
\* exchange of a code), and an answered request takes no further step.
C19_CompletedOncePerCode ==
    [][/\ \A code \in {Code1, Code2} :
              Cardinality(CompletionsOf(callbacks', completions', code)) <= 1
       /\ \A r \in DOMAIN callbacks :
              callbacks[r].pc = "done" => callbacks'[r] = callbacks[r]]_vars

\* two callbacks carried the same code: one completed and was redirected,
\* the other was refused by the upstream and answered 500
C19_Witness ==
    \E r, q \in DOMAIN callbacks :
        /\ r # q
        /\ callbacks[r].code = callbacks[q].code
        /\ callbacks[r].completed /\ callbacks[r].resp.status = 302
        /\ Exchanged(q) /\ callbacks[q].pc = "done"
        /\ callbacks[q].resp.status = 500
        /\ Len(completions) = 1

\* the i-th call of completeAuthorization follows an exchange that returned
\* a credential with a non-empty access token, and passes the request decoded
\* from state, the credential's bot_id as userId, the given label, the scope
\* of the request and the credential's fields as props
CompletionMatches(i, label) ==
    With(callbacks[completions[i].by], LAMBDA cb :
        /\ cb.entry = "/callback"
        /\ ~cb.result.threw
        /\ cb.result.err = NoResponse
        /\ cb.result.credential = JSONparse(AnswerTo(completions[i].by).body).v
        /\ GetProp(cb.result.credential, K_access_token).v.t = "string"
        /\ GetProp(cb.result.credential, K_access_token).v.s # <<>>
        /\ completions[i].options =
               [request |-> JSONparse(atob(cb.state.s).v).v,
                userId |-> GetProp(cb.result.credential, K_bot_id).v,
                label |-> label,
                scope |-> GetProp(JSONparse(atob(cb.state.s).v).v, K_scope).v,
                props |-> [accessToken |-> GetProp(cb.result.credential,
                                                   K_access_token).v,
                           bot_id |-> GetProp(cb.result.credential, K_bot_id).v,
                           workspace_id |-> GetProp(cb.result.credential,
                                                    K_workspace_id).v,
                           workspace_name |-> GetProp(cb.result.credential,
                                                      K_workspace_name).v,
                           owner |-> GetProp(cb.result.credential, K_owner).v]])

WorkspaceName(i) ==
    GetProp(callbacks[completions[i].by].result.credential, K_workspace_name).v

\* a 302 is the answer of a callback whose call of completeAuthorization has
\* returned, and goes to the URL it returned
RedirectsAfterCompletion ==
    \A r \in DOMAIN callbacks :
        callbacks[r].resp.status = 302 =>
            \E i \in CompletionsBy(r) :
                /\ completions[i].returned
                /\ callbacks[r].resp.location = completions[i].redirectTo
                /\ callbacks[r].resp.location # NoUrl

\* C20 (as stated): completeAuthorization is called only after the exchange
\* returned a credential with a non-empty access token, with request = the
\* request decoded from state, userId = bot_id, label = workspace_name, or
\* "Notion User" when the name is absent, scope = the request's scope and
\* props = the credential's fields; the 302 is issued only after it returns,
\* to the URL it returned.
C20_CompletionArguments ==
    /\ \A i \in 1..Len(completions) :
           CompletionMatches(i, IF WorkspaceName(i) = JUndefined
                                THEN JStr(S_NotionUser)
                                ELSE WorkspaceName(i))
    /\ RedirectsAfterCompletion

\* C20 (amended): the same, where the label is "Notion User" when the
\* workspace name is absent or empty (any falsy value).
C20_CompletionArgumentsFalsyName ==
    /\ \A i \in 1..Len(completions) :
           CompletionMatches(i, IF Falsy(WorkspaceName(i))
                                THEN JStr(S_NotionUser)
                                ELSE WorkspaceName(i))
    /\ RedirectsAfterCompletion

\* a callback whose credential has an empty workspace name completed under
\* the label "Notion User" and was redirected to the URL returned
C20_Witness ==
    \E i \in 1..Len(completions) :
        /\ WorkspaceName(i) = JStr(<<>>)
        /\ completions[i].options.label = JStr(S_NotionUser)
        /\ completions[i].options.userId = JStr(<<98, 49>>)
        /\ completions[i].returned
        /\ callbacks[completions[i].by].resp.status = 302
        /\ callbacks[completions[i].by].resp.location = completions[i].redirectTo

\* the state parameters the server has placed in an upstream redirect (in
\* CallbackSpec resp is the only response to an /authorize request)
IssuedStates ==
    IF resp.status = 302
    THEN {resp.location.query[i].value :
              i \in {j \in 1..Len(resp.location.query) :
                         resp.location.query[j].name = "state"}}
    ELSE {}

\* C21: /callback calls completeAuthorization only with an AuthRequest that
\* this server serialized into the state parameter of an upstream redirect; a
\* state composed by the client, with a valid code, does not lead to
\* completion.
C21_CompletesOnlyIssuedStates ==
    \A i \in 1..Len(completions) :
        StateOf(completions[i].options.request) \in IssuedStates

-----------------------------------------------------------------------------
(* The state parameter, the consent page and the authorize URL: one         *)
(* application of a function to an argument drawn from a set                *)

\* the value of the parameter of this name in a URL's query (<<>>: none)
QueryValue(url, name) ==
    IF \E i \in 1..Len(url.query) : url.query[i].name = name
    THEN url.query[CHOOSE i \in 1..Len(url.query) : url.query[i].name = name].value
    ELSE <<>>

\* an AuthRequest of client "a" whose state parameter, chosen by the client,
\* is the given string
AuthRequestWithState(state) ==
    JObj(<<JStr(K_clientId), JStr(<<97>>),
           JStr(K_scope), JArr(<<JStr(<<114>>)>>),
           JStr(<<115, 116, 97, 116, 101>>), JStr(state)>>)

\* the AuthRequests parseAuthRequest can give: without a state, and with a
\* state that is plain ("s1"), holds a quote, a backslash and a line feed,
\* holds a Latin-1 letter (e-acute), or holds a character above U+00FF (the
\* euro sign)
AuthRequests ==
    {AuthRequest(<<97>>),
     AuthRequestWithState(<<115, 49>>),
     AuthRequestWithState(<<34, 92, 10, 39>>),
     AuthRequestWithState(<<233>>),
     AuthRequestWithState(<<8364>>)}

\* a credential the upstream returns for the code
SomeCredential ==
    Credential(JStr(<<116>>), <<JStr(K_workspace_name), JStr(<<87>>)>>)

StateRoundTripCalls ==
    {[fn |-> "state round trip", done |-> FALSE, request |-> r] : r \in AuthRequests}

\* the application of call.fn happens once
ApplyOnce(fn, result) ==
    /\ call.fn = fn
    /\ ~call.done
    /\ call' = [call EXCEPT !.done = TRUE]
    /\ ret' = result
    /\ UNCHANGED Unused

\* redirectToNotion(r), then /callback with the state of that redirect and a
\* code the upstream accepts, up to the options of completeAuthorization
StateRoundTrip(r) ==
    With(redirectToNotion(r, <<>>), LAMBDA redirect :
        IF redirect.status # 302
        THEN [redirect |-> redirect, callback |-> Answered(redirect)]
        ELSE With(CallbackReceived(Field(QueryValue(redirect.location, "state")),
                                   Field(Code1)), LAMBDA received :
             [redirect |-> redirect,
              callback |-> IF received.pc # "exchanging" THEN received
                           ELSE CallbackExchanged(received.oauthReqInfo,
                                    TokenResult(SomeCredential, NoResponse))]))

FnStateRoundTrip ==
    call.fn = "state round trip"
        /\ ApplyOnce("state round trip", StateRoundTrip(call.request))

\* C22: for every AuthRequest r, the state parameter redirectToNotion places
\* in the upstream redirect is base64(JSON(r)), and when it comes back
\* unchanged to /callback the request decoded there, and handed to
\* completeAuthorization, equals r.
C22_StateRoundTrip ==
    (call.fn = "state round trip" /\ call.done) =>
        /\ ret.redirect.status = 302
        /\ atob(QueryValue(ret.redirect.location, "state"))
               = [threw |-> FALSE, v |-> JSONstringify(call.request)]
        /\ ret.callback.pc = "completing"
        /\ ret.callback.oauthReqInfo = call.request
        /\ ret.callback.options.request = call.request

\* the same for the requests whose JSON text has no character above U+00FF
C22_Latin1StateRoundTrip ==
    (/\ call.fn = "state round trip" /\ call.done
     /\ \A i \in 1..Len(JSONstringify(call.request)) :
            JSONstringify(call.request)[i] <= 255) =>
        /\ ret.redirect.status = 302
        /\ atob(QueryValue(ret.redirect.location, "state"))
               = [threw |-> FALSE, v |-> JSONstringify(call.request)]
        /\ ret.callback.pc = "completing"
        /\ ret.callback.oauthReqInfo = call.request
        /\ ret.callback.options.request = call.request

\* the states a dialog is rendered for: { oauthReqInfo } for the AuthRequests
\* above and for requests whose state holds a single quote, a double quote,
\* "<b>", "a&b" or the text "&amp;"
DialogStates ==
    {DialogState(r) : r \in AuthRequests}
    \cup {DialogState(AuthRequestWithState(s)) :
            s \in {<<39>>, <<34>>, <<60, 98, 62>>, <<97, 38, 98>>,
                   <<38, 97, 109, 112, 59>>}}

DialogRoundTripCalls ==
    {[fn |-> "dialog round trip", done |-> FALSE, state |-> s] : s \in DialogStates}

\* renderApprovalDialog for the state, the browser submitting the form with
\* approved=true, and parseRedirectApproval on that form
DialogRoundTrip(state) ==
    With(renderApprovalDialog(ClientName(<<97>>), state), LAMBDA page :
        parseRedirectApproval(Field(S_true),
                              Field(HtmlAttributeValue(page.stateField)),
                              <<>>, <<107, 49>>))

FnDialogRoundTrip ==
    call.fn = "dialog round trip"
        /\ ApplyOnce("dialog round trip", DialogRoundTrip(call.state))

\* C23: for every DialogState s passed to renderApprovalDialog, states whose
\* strings hold a single quote, a double quote, '<', '>' or '&' included, the
\* state parseRedirectApproval returns after the browser submits the rendered
\* form with approved=true equals s.
C23_DialogRoundTrip ==
    (call.fn = "dialog round trip" /\ call.done) =>
        /\ ~ret.threw
        /\ ret.state = call.state

\* the names a registered client can have: "C-a", "<b>", "a&b", "x'y" and
\* a double quote
ClientNames ==
    {ClientName(<<97>>), <<60, 98, 62>>, <<97, 38, 98>>, <<120, 39, 121>>, <<34>>}

RenderCalls ==
    {[fn |-> "renderApprovalDialog", done |-> FALSE, name |-> n, state |-> s] :
        n \in ClientNames,
        s \in {DialogState(AuthRequest(<<97>>)),
               DialogState(AuthRequestWithState(<<39>>)),
               DialogState(AuthRequestWithState(<<60, 98, 62>>))}}

FnRender ==
    call.fn = "renderApprovalDialog"
        /\ ApplyOnce("renderApprovalDialog",
                     renderApprovalDialog(call.name, call.state))

\* the characters that are markup in HTML text: " & ' < >
MarkupCharacters == {34, 38, 39, 60, 62}

\* C24: the HTML renderApprovalDialog returns never holds a third-party value
\* (the client's name, the state's content) as live markup: every '<', '>',
\* '&' and quote of those values is escaped in the output (in the hidden
\* field, whose value is JSON text between single quotes, every '<', '>', '&'
\* and single quote).
C24_PageEscapesValues ==
    (call.fn = "renderApprovalDialog" /\ call.done) =>
        /\ \A i \in 1..Len(ret.clientName) : ret.clientName[i] \notin MarkupCharacters
        /\ \A i \in 1..Len(ret.stateField) :
               ret.stateField[i] \notin MarkupCharacters \ {34}

\* a whole /callback request: the response, given the outcome of fetch and
\* what completeAuthorization gives back
CallbackRun(state, code, answer, completed) ==
    With(CallbackReceived(state, code), LAMBDA received :
        IF received.pc = "done" THEN received.resp
        ELSE With(CallbackExchanged(received.oauthReqInfo,
                                    fetchUpstreamAuthToken_Receive(answer)),
                  LAMBDA exchanged :
             IF exchanged.pc = "done" THEN exchanged.resp
             ELSE CallbackCompleted(completed).resp))

\* a whole call of fetchUpstreamAuthToken with this client secret: the error
\* response of the pair it returns (NoResponse: none), status 0 with the body
\* "threw" when it throws
TokenRun(client_secret, code, answer) ==
    With(fetchUpstreamAuthToken_Send("https://api.notion.com/v1/oauth/token",
                                     NOTION_OAUTH_CLIENT_ID, client_secret, code,
                                     CallbackHref), LAMBDA sent :
        IF sent.requests = <<>> THEN sent.result.err
        ELSE IF fetchUpstreamAuthToken_Receive(answer).threw
        THEN Response(0, "threw")
        ELSE fetchUpstreamAuthToken_Receive(answer).err)

\* two signing secrets ("k1", "k2") and two upstream client secrets ("s3",
\* "s4")
SigningSecrets == <<(<<107, 49>>), (<<107, 50>>)>>

ClientSecrets == <<NOTION_OAUTH_CLIENT_SECRET, (<<115, 52>>)>>

\* pairs of outcomes of fetch that differ only in the values the upstream
\* sends: the error text of a non-success answer, the text of a body that is
\* not JSON, the other fields of a body without access_token, and the access
\* token and names of a credential
AnswerPairs ==
    {<<[failed |-> TRUE, ok |-> FALSE, body |-> <<>>],
       [failed |-> TRUE, ok |-> FALSE, body |-> <<>>]>>,
     <<[failed |-> FALSE, ok |-> FALSE,
        body |-> JSONstringify(JObj(<<JStr(<<101>>), JStr(<<120>>)>>))],
       [failed |-> FALSE, ok |-> FALSE,
        body |-> JSONstringify(JObj(<<JStr(<<101>>), JStr(<<116, 50>>)>>))]>>,
     <<[failed |-> FALSE, ok |-> TRUE, body |-> <<123, 120>>],
       [failed |-> FALSE, ok |-> TRUE, body |-> <<123, 116>>]>>,
     <<[failed |-> FALSE, ok |-> TRUE, body |-> JSONstringify(JNull)],
       [failed |-> FALSE, ok |-> TRUE, body |-> JSONstringify(JNull)]>>,
     <<[failed |-> FALSE, ok |-> TRUE, body |-> JSONstringify(JObj(<<>>))],
       [failed |-> FALSE, ok |-> TRUE,
        body |-> JSONstringify(JObj(<<JStr(K_bot_id), JStr(<<98, 50>>)>>))]>>,
     <<[failed |-> FALSE, ok |-> TRUE, body |-> JSONstringify(SomeCredential)],
       [failed |-> FALSE, ok |-> TRUE,
        body |-> JSONstringify(Credential(JStr(<<117>>),
                                          <<JStr(K_workspace_name), JStr(<<86>>)>>))]>>}

\* the same request in two deployments that differ in their secrets
TwoRunsCalls ==
    {[fn |-> "two runs", done |-> FALSE, kind |-> "GET /authorize",
      clientId |-> c, header |-> h.header] :
        c \in {<<97>>, <<98>>, <<>>}, h \in CraftedHeaders}
    \cup {[fn |-> "two runs", done |-> FALSE, kind |-> "POST /authorize",
           approved |-> f[1], state |-> f[2], header |-> h] :
        f \in PostForms,
        h \in {<<>>, CookieHeader(SignedCookieValue(<<JStr(<<97>>)>>,
                                                    SigningSecrets[1]).v)}}
    \cup {[fn |-> "two runs", done |-> FALSE, kind |-> "/callback",
           state |-> q.state, code |-> q.code, answers |-> p] :
        q \in CallbackRequests, p \in AnswerPairs}
    \cup {[fn |-> "two runs", done |-> FALSE, kind |-> "fetchUpstreamAuthToken",
           code |-> c, answers |-> p] :
        c \in TokenCalls, p \in AnswerPairs}

\* the responses of the two deployments to the request
TwoRuns(c) ==
    [i \in 1..2 |->
        IF c.kind = "GET /authorize"
        THEN GetAuthorize(c.clientId, c.header, SigningSecrets[i], {<<97>>})
        ELSE IF c.kind = "POST /authorize"
        THEN PostAuthorize(c.approved, c.state, c.header, SigningSecrets[i])
        ELSE IF c.kind = "/callback"
        THEN CallbackRun(c.state, c.code, c.answers[i],
                         [threw |-> FALSE,
                          redirectTo |-> [base |-> "https://client.example/cb",
                                          query |-> <<>>]])
        ELSE TokenRun(ClientSecrets[i], c.code, c.answers[i])]

FnTwoRuns ==
    call.fn = "two runs" /\ ApplyOnce("two runs", TwoRuns(call))

C26_EmptySecretFailsEveryRequest ==
    (call.fn = "GET /authorize" /\ call.done /\ call.secret = <<>>) =>
        /\ ret.status >= 400
        /\ ret.setCookie = <<>>
        /\ ret.location = NoUrl

\* without a secret no GET /authorize is redirected and none sets a cookie
C26_EmptySecretNeverApproves ==
    (call.fn = "GET /authorize" /\ call.done /\ call.secret = <<>>) =>
        /\ ret.status # 302
        /\ ret.setCookie = <<>>
        /\ ret.location = NoUrl

\* payloads signed under "k1" (the signature verifies) or "k2" (it does
\* not): the texts that are not arrays of strings, and the arrays ["a"], []
DecodeCalls ==
    {[fn |-> "decode signed payload", done |-> FALSE, payload |-> P, key |-> k] :
        P \in OtherPayloads \cup {JSONstringify(JArr(<<JStr(<<97>>)>>)),
                                  JSONstringify(JArr(<<>>))},
        k \in {SigningSecrets[1], SigningSecrets[2]}}

FnDecode ==
    call.fn = "decode signed payload"
        /\ ApplyOnce("decode signed payload",
                     getApprovedClientsFromCookie(
                         CookieHeader(SignPayload(call.payload, call.key).v),
                         SigningSecrets[1]))

\* the text is a JSON array consisting only of strings
IsStringArray(text) ==
    /\ ~JSONparse(text).threw
    /\ JSONparse(text).v.t = "array"
    /\ \A i \in 1..Len(JSONparse(text).v.a) : JSONparse(text).v.a[i].t = "string"

\* C27: a cookie whose signature verifies but whose payload is not a JSON
\* array of strings (an object, a number, null, an array with a non-string
\* element, text that is not JSON) decodes to absent; the payload is used
\* only after the signature has been verified: under a signature that does
\* not verify every payload, a well-formed list included, decodes to absent.
C27_OnlyVerifiedStringArrays ==
    (call.fn = "decode signed payload" /\ call.done) =>
        IF call.key = SigningSecrets[1] /\ IsStringArray(call.payload)
        THEN ret = Returned(JSONparse(call.payload).v)
        ELSE ret = Returned(JNull)

\* the payload ["a",7], signed under the server's key, decoded to absent
C27_Witness ==
    /\ call.fn = "decode signed payload" /\ call.done
    /\ call.key = SigningSecrets[1]
    /\ call.payload = JSONstringify(JArr(<<JStr(<<97>>), JNum(7)>>))
    /\ ret = Returned(JNull)

\* what the collaborators replied to callback r: the outcome of its fetch and
\* what its call of completeAuthorization gave back
AnswerFor(r) == IF UpstreamRequestsBy(r) = {} THEN NoAnswer ELSE AnswerTo(r)

CompletedFor(r) ==
    IF \E i \in CompletionsBy(r) : completions[i].returned
    THEN [threw |-> FALSE,
          redirectTo |-> completions[CHOOSE i \in CompletionsBy(r) :
                                         completions[i].returned].redirectTo]
    ELSE [threw |-> TRUE, redirectTo |-> NoUrl]

\* C28: the server keeps no state between requests: the response to every
\* /authorize and /callback request is determined by that request's own
\* query, body and Cookie header, the configuration and the collaborators'
\* replies to it, whatever requests of other flows are interleaved with it.
C28_ResponsesOfOwnInputs ==
    /\ resp.status # 0 =>
           resp = PostAuthorize(req.approved, req.state, req.cookie, secret)
    /\ \A r \in DOMAIN callbacks :
           (callbacks[r].entry = "/callback" /\ callbacks[r].pc = "done") =>
               callbacks[r].resp = CallbackRun(callbacks[r].state, callbacks[r].code,
                                               AnswerFor(r), CompletedFor(r))

\* two callbacks and an /authorize request were interleaved; the callbacks
\* got different replies from the upstream and different responses
C28_Witness ==
    /\ resp.status = 302
    /\ \E r, q \in DOMAIN callbacks :
           /\ Exchanged(r) /\ callbacks[r].resp.status = 302
           /\ Exchanged(q) /\ callbacks[q].pc = "done"
           /\ callbacks[q].resp.status = 500
           /\ AnswerTo(r) # AnswerTo(q)

\* a query parameter of a base URL
Param(name, value) == [name |-> name, value |-> value, keep |-> TRUE]

\* the queries of the base URLs: none, another parameter, a client_id, two
\* state parameters around another one, an owner and a response_type
BaseQueries ==
    {<<>>,
     <<Param("x", <<49>>)>>,
     <<Param("client_id", <<111, 108, 100>>), Param("x", <<49>>)>>,
     <<Param("state", <<122>>), Param("x", <<49>>), Param("state", <<121>>)>>,
     <<Param("owner", <<111>>), Param("response_type", <<116>>)>>}

AuthorizeUrlCalls ==
    {[fn |-> "getUpstreamAuthorizeUrl", done |-> FALSE,
      url |-> [base |-> "https://api.notion.com/v1/oauth/authorize", query |-> q],
      state |-> s, owner |-> o] :
        q \in BaseQueries,
        s \in {NoField, Field(<<>>), Field(<<115>>)},
        o \in {NoField, Field(<<>>), Field(<<119>>)}}

FnAuthorizeUrl ==
    call.fn = "getUpstreamAuthorizeUrl"
        /\ ApplyOnce("getUpstreamAuthorizeUrl",
                     getUpstreamAuthorizeUrl(call.url, NOTION_OAUTH_CLIENT_ID,
                                             CallbackHref, call.state, call.owner))

\* the values of the parameters of this name, in order
ValuesOf(q, name) ==
    [i \in 1..Len(SelectSeq(q, LAMBDA e : e.name = name)) |->
        SelectSeq(q, LAMBDA e : e.name = name)[i].value]

\* the parameters getUpstreamAuthorizeUrl does not set, as name and value
OtherParams(q) ==
    [i \in 1..Len(SelectSeq(q, LAMBDA e : e.name \notin
            {"client_id", "redirect_uri", "response_type", "owner", "state"})) |->
        <<SelectSeq(q, LAMBDA e : e.name \notin
            {"client_id", "redirect_uri", "response_type", "owner", "state"})[i].name,
          SelectSeq(q, LAMBDA e : e.name \notin
            {"client_id", "redirect_uri", "response_type", "owner", "state"})[i].value>>]

\* C29: getUpstreamAuthorizeUrl returns the base URL with client_id,
\* redirect_uri and response_type=code always set, owner set to the given
\* owner or "user" when none is given, and state set exactly when a
\* non-empty state was passed (the base URL's own state parameters stay
\* otherwise); a parameter of the same name on the base URL is replaced, not
\* duplicated, and the other parameters of the base URL are kept.
C29_AuthorizeUrlParameters ==
    (call.fn = "getUpstreamAuthorizeUrl" /\ call.done) =>
        /\ ret.base = call.url.base
        /\ ValuesOf(ret.query, "client_id") = <<NOTION_OAUTH_CLIENT_ID>>
        /\ ValuesOf(ret.query, "redirect_uri") = <<CallbackHref>>
        /\ ValuesOf(ret.query, "response_type") = <<(<<99, 111, 100, 101>>)>>
        /\ ValuesOf(ret.query, "owner")
               = <<IF call.owner.present THEN call.owner.s
                   ELSE <<117, 115, 101, 114>>>>
        /\ ValuesOf(ret.query, "state")
               = IF call.state.present /\ call.state.s # <<>>
                 THEN <<call.state.s>>
                 ELSE ValuesOf(call.url.query, "state")
        /\ OtherParams(ret.query) = OtherParams(call.url.query)

\* a base URL with two state parameters and no owner: the URL returned has
\* the one state passed and the owner "user"
C29_Witness ==
    /\ call.fn = "getUpstreamAuthorizeUrl" /\ call.done
    /\ Len(ValuesOf(call.url.query, "state")) = 2
    /\ call.state = Field(<<115>>)
    /\ ~call.owner.present
    /\ ValuesOf(ret.query, "state") = <<(<<115>>)>>
    /\ ValuesOf(ret.query, "owner") = <<(<<117, 115, 101, 114>>)>>

\* One application of one of the functions above to one input
FnInit ==
    /\ secret = <<107, 49>>
    /\ registered = {}
    /\ jar = <<>>
    /\ rendered = {}
    /\ granted = {}
    /\ posts = 0
    /\ req = NoRequest
    /\ resp = Response(0, "")
    /\ call \in StateRoundTripCalls \cup DialogRoundTripCalls \cup RenderCalls
                    \cup TwoRunsCalls \cup DecodeCalls \cup AuthorizeUrlCalls
    /\ ret = Returned(JNull)
    /\ callbacks = <<>>
    /\ upstream = <<>>
    /\ completions = <<>>

FnNext ==
    \/ FnStateRoundTrip
    \/ FnDialogRoundTrip
    \/ FnRender
    \/ FnTwoRuns
    \/ FnDecode
    \/ FnAuthorizeUrl

FnSpec == FnInit /\ [][FnNext]_vars

\* C30: the browser's approved-client cookie changes only through a POST
\* /authorize answered with 302: a response carries Set-Cookie only when it
\* is the 302 of a POST /authorize, the cookie the browser holds changes only
\* with such a response and to its value, and so no GET /authorize (400, 400,
\* 200, or the 302 for an already approved client) and no failing POST sets
\* or changes it.
C30_CookieChangesOnlyByApprovedPost ==
    [][/\ resp'.setCookie # <<>> => (req'.method = "POST" /\ resp'.status = 302)
       /\ jar' # jar => /\ req'.method = "POST" /\ req'.from = "browser"
                        /\ resp'.status = 302
                        /\ jar' = resp'.setCookie]_vars

\* the browser holds the cookie and GET /authorize redirects the approved
\* client without a Set-Cookie header
C30_Witness ==
    /\ req.method = "GET" /\ req.from = "browser"
    /\ jar # <<>>
    /\ resp.status = 302 /\ resp.location # NoUrl
    /\ resp.setCookie = <<>>

\* no /callback response carries a Set-Cookie header
C30_CallbackSetsNoCookie ==
    \A r \in 1..Len(callbacks) :
        callbacks[r].pc = "done" => callbacks[r].resp.setCookie = <<>>

=============================================================================
